---- MODULE Spec2Model ----
(***************************************************************************)
(* A model of the energizer fleet manager: the event bus, the port-keyed   *)
(* connection registry and the control-channel listener, the per-instance  *)
(* game state and its event handlers, the process supervisor, and the      *)
(* orchestrator's batched startup and shutdown.                            *)
(*                                                                         *)
(* Goroutines are modelled as interleaved steps; one step is one critical  *)
(* section (one lock acquisition) or one blocking call of the source.      *)
(***************************************************************************)
EXTENDS Integers, Sequences, FiniteSets, TLC

\* ------------------------------------------------------------------ bounds

\* Game ports the model draws from (1..NumPorts); the fleet owns a subset.
NumPorts == 2
\* Sockets the listener accepts over a run.
MaxConns == 2
\* Handler goroutines that may be in flight on the bus at once.
MaxInFlight == 2
\* Commands (exec.Cmd values) one ProcessManager creates over a run.
MaxStarts == 2
\* cap(Manager.startSemaphore): the configured max_concurrent_starts.
BatchSize == 1
\* long_frame frames one game server sends over a run.
MaxLag == 1001

\* ------------------------------------------------------- program constants

\* instance.go: LagWarningThreshold, LagCriticalThreshold
LagWarningThreshold == 10
LagCriticalThreshold == 30

Ports == 1..NumPorts
ConnIds == 1..MaxConns
NoConn == 0
Cmds == 1..MaxStarts
Callers == {"api", "all", "shutdown", "add", "restart", "cmd"}

\* events/types.go: GameStatus, GamePhase (the phases a frame may carry are
\* drawn from FramePhases)
GameStatus == {"unknown", "queued", "starting", "ready", "occupied", "sleeping", "stopped"}
GamePhase == {"idle", "in_lobby", "banning", "picking", "loading", "preparation",
              "match_started", "game_ending", "game_ended"}
FramePhases == {"idle", "match_started"}
PlayerCounts == {0, 1}

VARIABLES
    servers,      \* Manager.servers: the ports that have an Instance
    gs,           \* gs[p]: the GameState of the instance on port p
    conns,        \* conns[c]: one accepted socket and its handleConnection goroutine
    registry,     \* ConnectionRegistry.conns: port -> connection (NoConn: no entry)
    stopped,      \* EventBus.stopped
    tasks,        \* handler goroutines in flight, in the order Emit spawned them
    notified,     \* notified[p]: notify_discord_admin events published for port p
    ctxDone,      \* the root context has been cancelled
    pm,           \* pm[p]: the ProcessManager of instance p (running, cmd)
    alive,        \* alive[p]: the commands of instance p whose OS process is alive
    monitors,     \* monitors[p]: the monitor goroutines of instance p
    imu,          \* imu[p]: the holder of Instance.mu (a Start or Stop in progress)
    sa,           \* the StartAll goroutine
    stopAll,      \* the StopAll call of the shutdown handler
    mainpc,       \* main's position in its shutdown sequence
    pidFile,      \* the pin-file exists
    proxy,        \* proxy[p]: Instance.proxy and the context its goroutines run under
    pool,         \* the ordinals of the instances, the Start goroutines AddServers
                  \* spawned, the persisted total and the REST request that added them
    now,          \* the wall clock (time.Now()), in minutes
    nextRestart,  \* nextRestart[p]: Instance.nextRestart
    restarts,     \* restarts[p]: the Restart goroutines of the instance, by stage
    health,       \* health[p]: what the last general health check saw and issued
    handlers,     \* EventBus.handlers of one event type: the subscribed names, in order
    emits,        \* emits[k]: the k-th Emit or EmitSync call on that type and its goroutines
    ebwg,         \* EventBus.wg: the goroutines spawned by Emit that have not ended
    ebstop,       \* where the caller of EventBus.Stop() is
    cmd,          \* the operator command handled last: its name, port and result
    priority,     \* priority[p]: the priority class last requested for the process
    enabled,      \* enabled[p]: Instance.enabled
    sent,         \* the frame a game server wrote last, and how much of it arrived
    wire,         \* the payload ReadPacket returned last, byte by byte
    decoded,      \* what Parse made of that payload
    stream,       \* the bytes a socket holds: a length prefix and the payload after it
    packet,       \* what ReadPacket made of those bytes
    win,          \* win[p]: the ProcessManager of instance p in the Windows build
    lk,           \* the three mutexes of one instance and the goroutines that take them
    fleet         \* fleet[p]: the ordinal of the instance Manager.servers holds for port p

hvars == <<now, nextRestart, restarts, health>>
lvars == <<conns, registry>>
bvars == <<stopped, tasks, notified>>
pvars == <<pm, alive, monitors>>
fvars == <<sa, stopAll, mainpc, pidFile>>
evars == <<handlers, emits, ebwg, ebstop>>
xvars == <<evars, cmd, priority, enabled>>
wvars == <<sent, wire, decoded, stream, packet, win, lk, fleet>>
vars == <<servers, gs, conns, registry, stopped, tasks, notified, ctxDone,
          pm, alive, monitors, imu, sa, stopAll, mainpc, pidFile, proxy, pool,
          now, nextRestart, restarts, health, handlers, emits, ebwg, ebstop, cmd,
          priority, enabled, sent, wire, decoded, stream, packet, win, lk, fleet>>

\* ------------------------------------------------------------- GameState

\* state.go NewGameState
NewGameState ==
    [Status |-> "queued", Phase |-> "idle", PlayerCount |-> 0,
     TotalLagEvents |-> 0, SkippedFrames |-> 0, StatusChangedAt |-> now,
     Players |-> {}, PlayerPings |-> <<>>, MatchID |-> 0]

\* state.go GameState.SetStatus
SetStatus(g, s) == [g EXCEPT !.Status = s, !.StatusChangedAt = now]

\* UpdateTelemetry without the ready/occupied transitions.
UpdateTelemetryNoTransition(g, playerCount, phase, matchID, pings) ==
    [g EXCEPT !.PlayerCount = playerCount, !.Phase = phase, !.MatchID = matchID,
              !.PlayerPings = pings]

\* state.go GameState.UpdateTelemetry: the count, the phase, the match id and
\* the ping map are stored (the player map is not touched), then the status follows the
\* count and the time of the change is recorded.
UpdateTelemetry(g, playerCount, phase, matchID, pings) ==
    LET g1 == [g EXCEPT !.PlayerCount = playerCount, !.Phase = phase,
                        !.MatchID = matchID, !.PlayerPings = pings]
    IN  IF playerCount > 0 /\ g.Status = "ready"
          THEN [g1 EXCEPT !.Status = "occupied", !.StatusChangedAt = now]
        ELSE IF playerCount = 0 /\ g.Status = "occupied"
          THEN [g1 EXCEPT !.Status = "ready", !.StatusChangedAt = now]
        ELSE g1

\* protocol/parser.go parseServerStatus, lines 174-186: the ping map of a
\* status frame, one (name, ping) pair per player it reports; the frames of
\* the model carry the pair (p1, 40).
StatusPings(playerCount) ==
    [name \in (IF playerCount > 0 THEN {"p1"} ELSE {}) |-> 40]

\* state.go GameState.AddLagEvent
AddLagEvent(g) ==
    [g EXCEPT !.SkippedFrames = @ + 1, !.TotalLagEvents = @ + 1]

\* state.go GameState.ClearLagEvents
ClearLagEvents(g) == [g EXCEPT !.SkippedFrames = 0]

\* ------------------------------------------------------------- EventBus

\* A handler goroutine spawned by Emit for the one handler the manager
\* subscribes to the event's type. sync marks a goroutine of EmitSync, which
\* is counted in a WaitGroup local to that call, not in EventBus.wg.
Task(type, port, players, phase) ==
    [type |-> type, port |-> port, players |-> players, phase |-> phase,
     pc |-> "start", oldPhase |-> "idle", sync |-> FALSE, match |-> 0]

\* eventbus Emit: a no-op once the bus is stopped, else one goroutine per
\* subscribed handler.
Emit(ts, ev) == IF stopped THEN ts ELSE Append(ts, ev)

\* The sequence s without its i-th element.
RemoveAt(s, i) == [j \in 1..(Len(s) - 1) |-> IF j < i THEN s[j] ELSE s[j + 1]]

\* ------------------------------------------------ Connection, registry

\* connection.go Connection.Close: idempotent, sets closed
Close(cs, c) == [cs EXCEPT ![c].closed = TRUE]

\* Register without the eviction: the existing entry is overwritten, not closed.
RegisterNoEvict(reg, cs, p, c) == <<[reg EXCEPT ![p] = c], cs>>

\* connection.go ConnectionRegistry.Register: close the existing entry of the
\* port, if any, then store the new connection. Yields <<registry, conns>>.
Register(reg, cs, p, c) ==
    <<[reg EXCEPT ![p] = c],
      IF reg[p] # NoConn THEN Close(cs, reg[p]) ELSE cs>>

\* Unregister without the delete: the entry is closed and stays in the map.
UnregisterNoDelete(reg, cs, p) ==
    IF reg[p] # NoConn THEN <<reg, Close(cs, reg[p])>> ELSE <<reg, cs>>

\* connection.go ConnectionRegistry.Unregister: close and delete whatever is
\* registered for the port. Yields <<registry, conns>>.
Unregister(reg, cs, p) ==
    IF reg[p] # NoConn
      THEN <<[reg EXCEPT ![p] = NoConn], Close(cs, reg[p])>>
      ELSE <<reg, cs>>

\* connection.go ConnectionRegistry.CloseAll
CloseAll(reg, cs) ==
    <<[p \in Ports |-> NoConn],
      [c \in ConnIds |-> IF \E p \in Ports : reg[p] = c
                           THEN [cs[c] EXCEPT !.closed = TRUE] ELSE cs[c]]>>

\* ------------------------------------------------ TCPListener

\* tcp_listener.go Start: the accept loop hands a new socket to a
\* handleConnection goroutine. Sockets are numbered in accept order.
Accept(c) ==
    /\ conns[c].pc = "none"
    /\ \A d \in ConnIds : d < c => conns[d].pc # "none"
    /\ ~ctxDone
    /\ conns' = [conns EXCEPT ![c].pc = "handshake"]
    /\ UNCHANGED <<wvars, xvars, hvars, pool, proxy, servers, gs, registry, bvars, ctxDone, pvars, imu, fvars>>

\* What the 30 s handshake read of a new socket yields: no frame in time, a
\* frame that cannot be read or decoded, a frame of another command (a status
\* frame), or an announce.
FirstFrames == {"timeout", "undecodable", "status", "announce"}

\* A handshake that goes on with any frame that decodes.
HandshakeAcceptsDecoded(f) == f \in {"status", "announce"}

\* tcp_listener.go handleConnection, lines 106-131: the handshake goes on only
\* when the first frame was read, decoded, and is an announce.
HandshakeAccepts(f) == f = "announce"

\* tcp_listener.go handleConnection, lines 106-146: the handshake on first
\* frame f, which names port p. When it is accepted: SetPort, then Register
\* (Unregister is deferred). Otherwise the deferred conn.Close() runs and
\* nothing is registered.
Handshake(c, f, p) ==
    /\ conns[c].pc = "handshake"
    /\ IF HandshakeAccepts(f)
         THEN LET r == Register(registry, [conns EXCEPT ![c].port = p], p, c)
              IN  /\ registry' = r[1]
                  /\ conns' = [r[2] EXCEPT ![c].pc = "registered", ![c].first = f]
         ELSE /\ conns' = [Close(conns, c) EXCEPT ![c].pc = "done",
                                                  ![c].exit = "handshake", ![c].first = f]
              /\ UNCHANGED registry
    /\ UNCHANGED <<wvars, xvars, hvars, pool, proxy, servers, gs, bvars, ctxDone, pvars, imu, fvars>>

\* The first frame is missing, undecodable or not an announce.
HandshakeFail(c) ==
    \E f \in FirstFrames \ {"announce"}, p \in Ports : Handshake(c, f, p)

\* The first frame is an announce for port p.
HandshakeRegister(c, p) == Handshake(c, "announce", p)

\* tcp_listener.go handleConnection, line 149: publish the announce event.
EmitAnnounce(c) ==
    /\ conns[c].pc = "registered"
    /\ Len(tasks) < MaxInFlight
    /\ tasks' = Emit(tasks, Task("announce", conns[c].port, 0, "idle"))
    /\ conns' = [conns EXCEPT ![c].pc = "loop"]
    /\ UNCHANGED <<wvars, xvars, hvars, pool, proxy, servers, gs, registry, stopped, notified, ctxDone, pvars, imu, fvars>>

\* The deferred calls of handleConnection, in their order: Unregister(port),
\* then conn.Close().
Return(c, why) ==
    LET r == Unregister(registry, conns, conns[c].port)
    IN  /\ registry' = r[1]
        /\ conns' = [Close(r[2], c) EXCEPT ![c].pc = "done", ![c].exit = why]

\* tcp_listener.go handleConnection, lines 152-160: the top of the read loop
\* polls the context, then blocks in ReadPacket.
LoopCheck(c) ==
    /\ conns[c].pc = "loop"
    /\ IF ctxDone
         THEN Return(c, "ctx")
         ELSE /\ conns' = [conns EXCEPT ![c].pc = "reading"]
              /\ UNCHANGED registry
    /\ UNCHANGED <<wvars, xvars, hvars, pool, proxy, servers, gs, bvars, ctxDone, pvars, imu, fvars>>

\* tcp_listener.go handleConnection, lines 160, 180-193: a frame arrives on an
\* open socket, decodes, and is published. A game server reports its own port
\* in every frame.
RecvFrame(c, type, players, phase) ==
    /\ conns[c].pc = "reading"
    /\ ~conns[c].closed
    /\ Len(tasks) < MaxInFlight
    /\ tasks' = Emit(tasks, Task(type, conns[c].port, players, phase))
    /\ conns' = [conns EXCEPT ![c].pc = "loop"]
    /\ UNCHANGED <<wvars, xvars, hvars, pool, proxy, servers, gs, registry, stopped, notified, ctxDone, pvars, imu, fvars>>

RecvStatus(c) ==
    \E n \in PlayerCounts, ph \in FramePhases : RecvFrame(c, "status", n, ph)

\* A status frame of a game server that stays in phase idle.
RecvStatusIdle(c) ==
    \E n \in PlayerCounts : RecvFrame(c, "status", n, "idle")

\* tcp_listener.go handleConnection, line 160: ReadPacket fails with the 60 s
\* idle deadline on a socket that is still open.
ReadTimeout(c) ==
    /\ conns[c].pc = "reading"
    /\ ~conns[c].closed
    /\ conns' = [conns EXCEPT ![c].pc = "err_timeout"]
    /\ UNCHANGED <<wvars, xvars, hvars, pool, proxy, servers, gs, registry, bvars, ctxDone, pvars, imu, fvars>>

\* tcp_listener.go handleConnection, line 160: ReadPacket fails for another
\* reason: the peer closed the socket, the read broke, or the socket was closed
\* on this side (eviction, CloseAll).
ReadError(c) ==
    /\ conns[c].pc = "reading"
    /\ conns' = [conns EXCEPT ![c].pc = "err_other"]
    /\ UNCHANGED <<wvars, xvars, hvars, pool, proxy, servers, gs, registry, bvars, ctxDone, pvars, imu, fvars>>

\* The malformed frames a game server may send after the handshake.
MalformedFrames == {"zero_length", "unknown_command", "truncated_payload"}

\* protocol/parser.go ReadPacket, lines 31-53, and Parse, lines 68-103: a
\* zero length prefix fails in ReadPacket; an unknown command byte, or a
\* payload shorter than its command's schema, is read and fails in Parse.
FailsIn(frame) == IF frame = "zero_length" THEN "ReadPacket" ELSE "Parse"

\* tcp_listener.go handleConnection, lines 160-185: a malformed frame arrives
\* on an open socket. An error of ReadPacket takes the error branch of the
\* loop; an error of Parse is logged and the loop continues.
RecvMalformed(c, frame) ==
    /\ conns[c].pc = "reading"
    /\ ~conns[c].closed
    /\ conns' = [conns EXCEPT ![c].pc =
                    IF FailsIn(frame) = "ReadPacket" THEN "err_decode" ELSE "loop"]
    /\ UNCHANGED <<wvars, xvars, hvars, pool, proxy, servers, gs, registry, bvars, ctxDone, pvars, imu, fvars>>

\* The error branch without the synthetic closed event on the idle timeout.
ReadErrActionNoEvent(closed, pc) ==
    IF closed THEN [why |-> "closed", emit |-> FALSE]
    ELSE IF pc = "err_timeout" THEN [why |-> "timeout", emit |-> FALSE]
    ELSE [why |-> "error", emit |-> FALSE]

\* tcp_listener.go handleConnection, lines 161-178: the error branch of the
\* read loop. Yields the exit reason, and whether a closed event is published.
ReadErrAction(closed, pc) ==
    IF closed THEN [why |-> "closed", emit |-> FALSE]
    ELSE IF pc = "err_timeout" THEN [why |-> "timeout", emit |-> TRUE]
    ELSE [why |-> "error", emit |-> FALSE]

HandleReadErr(c) ==
    /\ conns[c].pc \in {"err_timeout", "err_other", "err_decode"}
    /\ LET a == ReadErrAction(conns[c].closed, conns[c].pc)
       IN  /\ a.emit => Len(tasks) < MaxInFlight
           /\ tasks' = IF a.emit
                         THEN Emit(tasks, Task("closed", conns[c].port, 0, "idle"))
                         ELSE tasks
           /\ Return(c, a.why)
    /\ UNCHANGED <<wvars, xvars, hvars, pool, proxy, servers, gs, stopped, notified, ctxDone, pvars, imu, fvars>>

\* ------------------------------------------------ Manager event handlers

Done(i) == tasks' = RemoveAt(tasks, i)

\* process_linux.go onServerAnnounce
OnServerAnnounce(g) == SetStatus(g, "ready")

\* process_linux.go onServerClosed
OnServerClosed(g) == SetStatus(g, "stopped")

\* process_linux.go onServerAnnounce / onServerClosed: one SetStatus on the instance
\* GetInstance finds, nothing when the fleet has no instance for the port.
HandleAnnounce(i) ==
    /\ i \in 1..Len(tasks)
    /\ tasks[i].type = "announce"
    /\ tasks[i].pc = "start"
    /\ LET p == tasks[i].port
       IN  gs' = IF p \in servers THEN [gs EXCEPT ![p] = OnServerAnnounce(@)] ELSE gs
    /\ Done(i)
    /\ UNCHANGED <<wvars, xvars, hvars, pool, proxy, servers, lvars, stopped, notified, ctxDone, pvars, imu, fvars>>

HandleClosed(i) ==
    /\ i \in 1..Len(tasks)
    /\ tasks[i].type = "closed"
    /\ LET p == tasks[i].port
       IN  gs' = IF p \in servers THEN [gs EXCEPT ![p] = OnServerClosed(@)] ELSE gs
    /\ Done(i)
    /\ UNCHANGED <<wvars, xvars, hvars, pool, proxy, servers, lvars, stopped, notified, ctxDone, pvars, imu, fvars>>

\* state.go GameState.SetMatchInfo
SetMatchInfo(g, matchID) == [g EXCEPT !.MatchID = matchID]

\* instance.go onPhaseTransition, lines 399-418, on the game state: the lag
\* history is cleared on match_started and on idle, the match info on idle.
OnPhaseTransition(g, newPhase) ==
    CASE newPhase = "match_started" -> ClearLagEvents(g)
      [] newPhase = "idle" -> ClearLagEvents(SetMatchInfo(g, 0))
      [] OTHER -> g

\* instance.go onPhaseTransition, lines 399-418, on the process: high priority
\* is requested on match_started, normal priority on game_ended.
RequestedPriority(prev, newPhase) ==
    CASE newPhase = "match_started" -> "high"
      [] newPhase = "game_ended" -> "normal"
      [] OTHER -> prev

\* process_linux.go onServerStatus and instance.go HandleStatusUpdate, one step per
\* lock acquisition: GetPhase; UpdateTelemetry; onPhaseTransition when the
\* phase read before differs from the frame's; GetStatus; SetStatus(ready)
\* when GetStatus returned starting.
HandleStatus(i) ==
    /\ i \in 1..Len(tasks)
    /\ tasks[i].type = "status"
    /\ LET t == tasks[i]
           p == t.port
       IN  CASE t.pc = "start" ->
                  IF p \in servers
                    THEN /\ tasks' = [tasks EXCEPT ![i].pc = "telemetry",
                                                  ![i].oldPhase = gs[p].Phase]
                         /\ UNCHANGED <<gs, priority>>
                    ELSE Done(i) /\ UNCHANGED <<gs, priority>>
             [] t.pc = "telemetry" ->
                  /\ gs' = [gs EXCEPT ![p] = UpdateTelemetry(@, t.players, t.phase,
                                                 t.match, StatusPings(t.players))]
                  /\ tasks' = [tasks EXCEPT ![i].pc =
                                  IF t.oldPhase # t.phase THEN "phase" ELSE "getstatus",
                                                ![i].oldPhase = "idle"]
                  /\ UNCHANGED priority
             [] t.pc = "phase" ->
                  /\ gs' = [gs EXCEPT ![p] = OnPhaseTransition(@, t.phase)]
                  /\ priority' = [priority EXCEPT ![p] = RequestedPriority(@, t.phase)]
                  /\ tasks' = [tasks EXCEPT ![i].pc = "getstatus"]
             [] t.pc = "getstatus" ->
                  /\ UNCHANGED <<gs, priority>>
                  /\ IF gs[p].Status = "starting"
                       THEN tasks' = [tasks EXCEPT ![i].pc = "setready"]
                       ELSE Done(i)
             [] t.pc = "setready" ->
                  /\ gs' = [gs EXCEPT ![p] = SetStatus(@, "ready")]
                  /\ UNCHANGED priority
                  /\ Done(i)
    /\ UNCHANGED <<wvars, evars, cmd, enabled, hvars, pool, proxy, servers, lvars, stopped, notified, ctxDone, pvars, imu, fvars>>

\* ------------------------------------------------ restart schedule

\* instance.go lines 23 and 25, in minutes.
MinRestartInterval == 24 * 60
MaxRestartInterval == 48 * 60

\* health/manager.go line 171: 2*time.Minute.
StuckLimit == 2

\* instance.go NewInstance line 76 and Restart line 202: the next automatic
\* restart, r being rand.Int63n(MaxRestartInterval - MinRestartInterval).
NewNextRestart(t, r) == t + MinRestartInterval + r

\* The values of r the model draws: the least and the greatest.
RandomOffsets == {0, MaxRestartInterval - MinRestartInterval - 1}

\* No Restart goroutine: none is about to call Stop, to reset the state, to
\* resample the next restart, or to call Start.
NoRestarts == [stop |-> 0, reset |-> 0, resample |-> 0, start |-> 0]

\* No general health check has run yet.
NoCheck == [due |-> FALSE, issued |-> 0]

\* ------------------------------------------------ GameProxy, contexts

\* instance.go NewInstance: no proxy yet.
NoProxy == [state |-> "none", ctx |-> "none"]

\* The context a caller hands to Instance.Start: the REST start handler uses
\* context.Background(), StartAll the root context, and the REST add-servers
\* handler its request's context (routes_config.go line 92).
CtxOf(by) ==
    CASE by = "api" -> "background"
      [] by = "all" -> "root"
      [] by = "restart" -> "root"
      [] by = "add" -> "request"
      [] OTHER -> "none"

\* The context has been cancelled: the root context by main's cancel(), a
\* request's context when its handler has returned.
Cancelled(ctx) ==
    \/ ctx = "root" /\ ctxDone
    \/ ctx = "request" /\ pool.req = "done"

\* process_linux.go initializeServers: instance i (0-based) has port
\* start + i and ordinal i + 1; the configured total is persisted.
NewPool(S) ==
    [ids |-> [p \in Ports |-> IF p \in S THEN p ELSE 0],
     starting |-> {}, total |-> Cardinality(S), req |-> "none"]

\* ------------------------------------------------ ProcessManager

\* process.go NewProcessManager
NewProcessManager == [running |-> FALSE, cmd |-> 0, started |-> FALSE]

Free == [op |-> "none", by |-> "none"]

\* process_linux.go startPlatform, cmd.Start() succeeded: a fresh command with
\* a live process, running = true. Yields <<pm, alive>>.
StartPlatformOK(m, al) ==
    <<[running |-> TRUE, cmd |-> m.cmd + 1, started |-> TRUE], al \cup {m.cmd + 1}>>

\* process_linux.go startPlatform, cmd.Start() failed: pm.cmd is the new
\* command, which has no process.
StartPlatformFail(m) == [m EXCEPT !.cmd = @ + 1, !.started = FALSE]

\* process.go ProcessManager.Stop (the signal-based branch): nothing when not
\* running; else SIGINT, wait up to 10 s, SIGKILL on timeout: the process of
\* the current command is gone when it returns. Yields <<pm, alive>>.
PmStop(m, al) ==
    IF ~m.running THEN <<m, al>>
    ELSE <<[m EXCEPT !.running = FALSE], al \ {m.cmd}>>

\* process.go ProcessManager.monitor, after cmd.Wait() returned
MonitorExited(m) == [m EXCEPT !.running = FALSE]

\* process_linux.go startPlatform, line 71, and process.go monitor, lines
\* 360-364: the monitor goroutine reads pm.cmd (without the lock) when it is
\* first scheduled, and waits on that command.
MonitorBind(p) ==
    /\ \E m \in monitors[p] :
         /\ m.pc = "init"
         /\ monitors' = [monitors EXCEPT ![p] =
                (@ \ {m}) \cup {[m EXCEPT !.pc = "wait", !.cmd = pm[p].cmd]}]
    /\ UNCHANGED <<wvars, xvars, hvars, pool, proxy, servers, gs, lvars, bvars, ctxDone, pm, alive, imu, fvars>>

\* process.go monitor, lines 364-374: cmd.Wait() has returned (the command's
\* process is gone, or it never had one); take pm.mu and clear running.
MonitorExit(p) ==
    /\ \E m \in monitors[p] :
         /\ m.pc = "wait"
         /\ m.cmd \notin alive[p]
         /\ monitors' = [monitors EXCEPT ![p] = @ \ {m}]
    /\ pm' = [pm EXCEPT ![p] = MonitorExited(@)]
    /\ UNCHANGED <<wvars, xvars, hvars, pool, proxy, servers, gs, lvars, bvars, ctxDone, alive, imu, fvars>>

\* The supervised process exits on its own.
ProcessExit(p) ==
    /\ \E g \in alive[p] : alive' = [alive EXCEPT ![p] = @ \ {g}]
    /\ UNCHANGED <<wvars, xvars, hvars, pool, proxy, servers, gs, lvars, bvars, ctxDone, pm, monitors, imu, fvars>>

\* ------------------------------------------------ Instance.Start, Instance.Stop

\* What the caller of a finished Start or Stop records: a StartAll worker
\* counts a success or a failure and leaves its WaitGroup, a StopAll worker
\* leaves its WaitGroup. Yields <<sa, stopAll>>.
Report(by, p, ok) ==
    <<IF by = "all"
        THEN [sa EXCEPT !.pending = @ \ {p},
                        !.batchSuccess = IF ok THEN @ + 1 ELSE @,
                        !.totalFail = IF ok THEN @ ELSE @ + 1]
        ELSE sa,
      IF by = "shutdown" THEN [stopAll EXCEPT !.pending = @ \ {p}] ELSE stopAll>>

\* A caller may enter Start or Stop: a StartAll worker of the current batch,
\* a StopAll worker, an operator request, or the handler of a shutdown_server
\* command.
MayCall(by, op, p) ==
    CASE by = "all" -> op = "start" /\ sa.pc = "workers" /\ p \in sa.pending
      [] by = "shutdown" -> op = "stop" /\ stopAll.pc = "workers" /\ p \in stopAll.pending
      [] by = "api" -> p \in servers
      [] by = "add" -> op = "start" /\ p \in pool.starting
      [] by = "restart" -> restarts[p][op] > 0
      [] by = "cmd" -> op = "stop" /\ p \in servers /\ cmd.pc # "stop"

\* instance.go startProxy, lines 141-165, with GameProxy.Start: the proxy's
\* goroutines run under the context handed to Start; i.proxy is set only
\* when the proxy started (up), and is left alone when the proxy is disabled
\* or failed to start.
StartProxy(px, ctx, up) ==
    IF up THEN [state |-> "up", ctx |-> ctx] ELSE px

\* Start refusing only an instance whose process is running.
RefusedIfRunning(p) == pm[p].running

\* instance.go Instance.Start, lines 104-110: an error when the instance is
\* disabled or its process is running.
Refused(p) == ~enabled[p] \/ pm[p].running

\* instance.go Instance.Start, lines 101-124: take i.mu; refuse when the
\* instance is disabled or the process is running; else start the proxy when it is enabled (a failure is
\* only logged) and SetStatus(starting). The goroutine AddServers spawned
\* for the instance has run once Start is entered.
StartBegin(p, by) ==
    /\ imu[p] = Free
    /\ MayCall(by, "start", p)
    /\ IF Refused(p)
         THEN /\ UNCHANGED <<gs, imu, proxy>>
              /\ sa' = Report(by, p, FALSE)[1]
         ELSE /\ pm[p].cmd < MaxStarts
              /\ \E up \in BOOLEAN :
                    proxy' = [proxy EXCEPT ![p] = StartProxy(@, CtxOf(by), up)]
              /\ gs' = [gs EXCEPT ![p] = SetStatus(@, "starting")]
              /\ imu' = [imu EXCEPT ![p] = [op |-> "start", by |-> by]]
              /\ UNCHANGED sa
    /\ pool' = IF by = "add" THEN [pool EXCEPT !.starting = @ \ {p}] ELSE pool
    /\ restarts' = IF by = "restart" /\ Refused(p)
                     THEN [restarts EXCEPT ![p].start = @ - 1] ELSE restarts
    /\ UNCHANGED <<wvars, xvars, now, nextRestart, health, servers, lvars, bvars, ctxDone, pvars, stopAll, mainpc, pidFile>>

\* A failed spawn that leaves the proxy as it is.
StopProxyOnFailureKeep(px) == px

\* instance.go Instance.Start, lines 129-132: a failed spawn stops the proxy
\* the instance holds and discards it.
StopProxyOnFailure(px) == NoProxy

\* instance.go Instance.Start, lines 126-136, with process.go Start and
\* startPlatform: spawn the process; on failure SetStatus(stopped) and stop
\* the proxy. i.mu is released on return.
StartFinish(p, ok) ==
    /\ imu[p].op = "start"
    /\ IF ok
         THEN LET r == StartPlatformOK(pm[p], alive[p])
              IN  /\ pm' = [pm EXCEPT ![p] = r[1]]
                  /\ alive' = [alive EXCEPT ![p] = r[2]]
                  /\ monitors' = [monitors EXCEPT ![p] =
                         @ \cup {[id |-> r[1].cmd, cmd |-> 0, pc |-> "init"]}]
                  /\ UNCHANGED <<gs, proxy>>
         ELSE /\ pm' = [pm EXCEPT ![p] = StartPlatformFail(@)]
              /\ gs' = [gs EXCEPT ![p] = SetStatus(@, "stopped")]
              /\ proxy' = [proxy EXCEPT ![p] = StopProxyOnFailure(@)]
              /\ UNCHANGED <<alive, monitors>>
    /\ sa' = Report(imu[p].by, p, ok)[1]
    /\ restarts' = IF imu[p].by = "restart"
                     THEN [restarts EXCEPT ![p].start = @ - 1] ELSE restarts
    /\ imu' = [imu EXCEPT ![p] = Free]
    /\ UNCHANGED <<wvars, xvars, now, nextRestart, health, pool, servers, lvars, bvars, ctxDone, stopAll, mainpc, pidFile>>

\* The result of an operator command that has not been handled.
NoCommand == [name |-> "none", port |-> 0, pc |-> "idle", err |-> "none"]

\* instance.go Instance.Stop, lines 169-173: take i.mu, SetStatus(stopped).
StopBegin(p, by) ==
    /\ imu[p] = Free
    /\ MayCall(by, "stop", p)
    /\ gs' = [gs EXCEPT ![p] = SetStatus(@, "stopped")]
    /\ imu' = [imu EXCEPT ![p] = [op |-> "stop", by |-> by]]
    /\ cmd' = IF by = "cmd"
                THEN [name |-> "shutdown_server", port |-> p, pc |-> "stop",
                      err |-> "none"]
                ELSE cmd
    /\ UNCHANGED <<wvars, evars, enabled, priority, hvars, pool, proxy, servers, lvars, bvars, ctxDone, pvars, fvars>>

\* process.go Stop, lines 166-170: Process.Signal fails on a process that
\* has been reaped while pm.running is still set (the monitor has not taken
\* pm.mu yet); Stop then clears running and returns the error of
\* Process.Kill().
InterruptMayFail(m, al) == m.running /\ m.cmd \notin al

\* instance.go Instance.Stop, lines 175-184: when process.Stop() returned an
\* error, Stop returns the result of process.Kill() at once; else it stops
\* the proxy and discards it.
ProxyAfterStop(px, delivered) == IF delivered THEN NoProxy ELSE px

\* instance.go Instance.Stop, lines 175-186, with process.go Stop and Kill:
\* stop the process (Kill finds running cleared and returns nil), then the
\* proxy; i.mu is released on return.
StopFinish(p) ==
    /\ imu[p].op = "stop"
    /\ LET r == PmStop(pm[p], alive[p])
       IN  /\ pm' = [pm EXCEPT ![p] = r[1]]
           /\ alive' = [alive EXCEPT ![p] = r[2]]
    /\ \E delivered \in BOOLEAN :
          /\ delivered \/ InterruptMayFail(pm[p], alive[p])
          /\ proxy' = [proxy EXCEPT ![p] = ProxyAfterStop(@, delivered)]
    /\ stopAll' = Report(imu[p].by, p, TRUE)[2]
    /\ restarts' = IF imu[p].by = "restart"
                     THEN [restarts EXCEPT ![p].stop = @ - 1, ![p].reset = @ + 1]
                     ELSE restarts
    /\ cmd' = IF imu[p].by = "cmd" THEN [cmd EXCEPT !.pc = "done", !.err = "nil"] ELSE cmd
    /\ imu' = [imu EXCEPT ![p] = Free]
    /\ UNCHANGED <<wvars, evars, enabled, priority, now, nextRestart, health, pool, servers, gs, lvars, bvars, ctxDone, monitors, sa, mainpc, pidFile>>

\* An operator request (REST API, CLI) starts or stops an instance.
ApiStart(p) == StartBegin(p, "api")
ApiStop(p) == StopBegin(p, "api")

\* eventbus EmitSync, lines 128-144: the caller publishes an announce for
\* port p synchronously. Under the read lock it returns when the bus is
\* stopped, else copies the handler list and releases the lock.
EmitSyncCheck(p) ==
    /\ Len(tasks) < MaxInFlight
    /\ ~stopped
    /\ tasks' = Append(tasks, [Task("announce", p, 0, "idle")
                                  EXCEPT !.sync = TRUE, !.pc = "checked"])
    /\ UNCHANGED <<wvars, xvars, hvars, pool, proxy, servers, gs, lvars, stopped, notified, ctxDone, pvars, imu, fvars>>

\* eventbus EmitSync, lines 146-173: with the lock released, spawn the handler
\* goroutine and wait for it on the local WaitGroup.
EmitSyncSpawn(i) ==
    /\ i \in 1..Len(tasks)
    /\ tasks[i].pc = "checked"
    /\ tasks' = [tasks EXCEPT ![i].pc = "start"]
    /\ UNCHANGED <<wvars, xvars, hvars, pool, proxy, servers, gs, lvars, stopped, notified, ctxDone, pvars, imu, fvars>>

\* tcp_listener.go handleConnection, lines 180-193: a long_frame frame.
RecvLongFrame(c) ==
    /\ conns[c].pc = "reading"
    /\ gs[conns[c].port].TotalLagEvents
         + Cardinality({i \in 1..Len(tasks) : tasks[i].type = "long_frame"}) < MaxLag
    /\ RecvFrame(c, "long_frame", 0, "idle")

\* instance.go HandleLongFrame, lines 342-355: publish notify_discord_admin
\* (level warning, port and count in the message) when the count read equals
\* the critical threshold. Yields the number of notifications published.
NotifyAtCritical(lagEvents, n) ==
    IF lagEvents = LagCriticalThreshold /\ ~stopped THEN n + 1 ELSE n

\* process_linux.go onLongFrame and instance.go HandleLongFrame: AddLagEvent under
\* the state lock; then TotalLagEvents is read without the lock and compared
\* with the thresholds.
HandleLongFrame(i) ==
    /\ i \in 1..Len(tasks)
    /\ tasks[i].type = "long_frame"
    /\ LET t == tasks[i]
           p == t.port
       IN  IF t.pc = "start"
             THEN IF p \in servers
                    THEN /\ gs' = [gs EXCEPT ![p] = AddLagEvent(@)]
                         /\ tasks' = [tasks EXCEPT ![i].pc = "read"]
                         /\ UNCHANGED notified
                    ELSE Done(i) /\ UNCHANGED <<gs, notified>>
             ELSE /\ notified' = [notified EXCEPT ![p] =
                                     NotifyAtCritical(gs[p].TotalLagEvents, @)]
                  /\ Done(i)
                  /\ UNCHANGED gs
    /\ UNCHANGED <<wvars, xvars, hvars, pool, proxy, servers, lvars, stopped, ctxDone, pvars, imu, fvars>>

\* ------------------------------------------------ Manager.StartAll

\* The ports of S in ascending order (sort.Slice by Port()).
SortByPort(S) ==
    CHOOSE q \in [1..Cardinality(S) -> S] : \A i, j \in 1..Cardinality(S) : i < j => q[i] < q[j]

Min(a, b) == IF a < b THEN a ELSE b

\* A batch that takes every instance from index start on.
BatchOfRest(order, start) ==
    [k \in 1..(Len(order) - start) |-> order[start + k]]

\* process_linux.go StartAll, lines 921-926: the batch that begins at index start
\* (0-based) of the sorted slice, as the sequence of its ports.
BatchOf(order, start) ==
    [k \in 1..(Min(start + BatchSize, Len(order)) - start) |-> order[start + k]]

Range(q) == {q[k] : k \in 1..Len(q)}

\* process_linux.go waitForBatchReady, lines 1013-1016
StartupTerminal == {"ready", "occupied", "sleeping", "stopped"}

\* process_linux.go savePIDFile: rewrite the pin-file when some instance runs.
SavePIDFile(file) == IF \E p \in servers : pm[p].running THEN TRUE ELSE file

\* process_linux.go StartAll, lines 902-912: snapshot the fleet, sort it by port.
StartAllBegin ==
    /\ sa.pc = "idle"
    /\ sa' = [sa EXCEPT !.pc = "loop", !.order = SortByPort(servers)]
    /\ UNCHANGED <<wvars, xvars, hvars, pool, proxy, servers, gs, lvars, bvars, ctxDone, pvars, imu, stopAll, mainpc, pidFile>>

\* process_linux.go StartAll, lines 921-957 and 975-988: the head of the batch loop
\* launches one worker goroutine per instance of the batch; after the last
\* batch StartAll returns an error when every Start failed, else saves the
\* pin-file.
StartAllLoop ==
    /\ sa.pc = "loop"
    /\ IF sa.batchStart < Len(sa.order)
         THEN /\ sa' = [sa EXCEPT !.pc = "workers", !.batchSuccess = 0,
                                  !.pending = Range(BatchOf(sa.order, sa.batchStart))]
              /\ UNCHANGED pidFile
         ELSE /\ sa' = [sa EXCEPT !.pc = "done"]
              /\ pidFile' = IF sa.totalFail > 0 /\ sa.totalSuccess = 0
                              THEN pidFile ELSE SavePIDFile(pidFile)
    /\ UNCHANGED <<wvars, xvars, hvars, pool, proxy, servers, gs, lvars, bvars, ctxDone, pvars, imu, stopAll, mainpc>>

\* A StartAll worker goroutine calls inst.Start (process_linux.go line 946).
WorkerStart(p) == StartBegin(p, "all")

\* process_linux.go StartAll, line 970: whether the batch is waited for.
NeedsWait(batchEnd, total, batchSuccess) == batchEnd < total /\ batchSuccess > 0

\* process_linux.go StartAll, lines 958-972: wg.Wait() returned; wait for the batch
\* when it launched a process and another batch remains.
StartAllJoin ==
    /\ sa.pc = "workers"
    /\ sa.pending = {}
    /\ LET batchEnd == Min(sa.batchStart + BatchSize, Len(sa.order))
       IN  sa' = IF NeedsWait(batchEnd, Len(sa.order), sa.batchSuccess)
                   THEN [sa EXCEPT !.pc = "wait", !.waitEnd = "none",
                                   !.totalSuccess = @ + sa.batchSuccess]
                   ELSE [sa EXCEPT !.pc = "loop", !.waitEnd = "none",
                                   !.batchStart = @ + BatchSize,
                                   !.totalSuccess = @ + sa.batchSuccess]
    /\ UNCHANGED <<wvars, xvars, hvars, pool, proxy, servers, gs, lvars, bvars, ctxDone, pvars, imu, stopAll, mainpc, pidFile>>

\* waitForBatchReady returns: StartAll goes on to the next batch.
WaitReturn(why) ==
    sa' = [sa EXCEPT !.pc = "loop", !.waitEnd = why, !.batchStart = @ + BatchSize,
                     !.pollIdx = 0, !.readyCount = 0]

\* process_linux.go waitForBatchReady, lines 1004-1005: the context is done.
WaitCtx ==
    /\ sa.pc = "wait"
    /\ ctxDone
    /\ WaitReturn("ctx")
    /\ UNCHANGED <<wvars, xvars, hvars, pool, proxy, servers, gs, lvars, bvars, ctxDone, pvars, imu, stopAll, mainpc, pidFile>>

\* process_linux.go waitForBatchReady, lines 1006-1008: the 120 s deadline fires.
WaitDeadline ==
    /\ sa.pc = "wait"
    /\ WaitReturn("deadline")
    /\ UNCHANGED <<wvars, xvars, hvars, pool, proxy, servers, gs, lvars, bvars, ctxDone, pvars, imu, stopAll, mainpc, pidFile>>

\* process_linux.go waitForBatchReady, lines 1009-1010: the 3 s ticker fires.
WaitTick ==
    /\ sa.pc = "wait"
    /\ sa' = [sa EXCEPT !.pc = "poll", !.pollIdx = 1, !.readyCount = 0]
    /\ UNCHANGED <<wvars, xvars, hvars, pool, proxy, servers, gs, lvars, bvars, ctxDone, pvars, imu, stopAll, mainpc, pidFile>>

\* process_linux.go waitForBatchReady, lines 1011-1024: read the status of the next
\* instance of the batch (one GetStatus each); after the last one, return when
\* all were in a terminal-for-startup status, else wait on.
WaitPoll ==
    /\ sa.pc = "poll"
    /\ LET batch == BatchOf(sa.order, sa.batchStart)
           n == IF gs[batch[sa.pollIdx]].Status \in StartupTerminal
                  THEN sa.readyCount + 1 ELSE sa.readyCount
       IN  IF sa.pollIdx < Len(batch)
             THEN sa' = [sa EXCEPT !.pollIdx = @ + 1, !.readyCount = n]
             ELSE IF n >= Len(batch)
               THEN WaitReturn("ready")
               ELSE sa' = [sa EXCEPT !.pc = "wait", !.pollIdx = 0, !.readyCount = 0]
    /\ UNCHANGED <<wvars, xvars, hvars, pool, proxy, servers, gs, lvars, bvars, ctxDone, pvars, imu, stopAll, mainpc, pidFile>>

\* ------------------------------------------------ shutdown

\* main.go, line 328: a signal (or a fatal listener error) arrived; cancel the
\* root context.
MainCancel ==
    /\ mainpc = "run"
    /\ ctxDone' = TRUE
    /\ mainpc' = "cancelled"
    /\ UNCHANGED <<wvars, xvars, hvars, pool, proxy, servers, gs, lvars, bvars, pvars, imu, sa, stopAll, pidFile>>

\* main.go, lines 331-334: emit the shutdown event.
MainEmitShutdown ==
    /\ mainpc = "cancelled"
    /\ Len(tasks) < MaxInFlight
    /\ tasks' = Emit(tasks, Task("shutdown", 0, 0, "idle"))
    /\ mainpc' = "emitted"
    /\ UNCHANGED <<wvars, xvars, hvars, pool, proxy, servers, gs, lvars, stopped, notified, ctxDone, pvars, imu, sa, stopAll, pidFile>>

\* main.go, lines 337-348: wait for the long-running tasks (StartAll among
\* them), for at most 30 s.
MainWait(timeout) ==
    /\ mainpc = "emitted"
    /\ timeout \/ sa.pc = "done"
    /\ mainpc' = "waited"
    /\ UNCHANGED <<wvars, xvars, hvars, pool, proxy, servers, gs, lvars, bvars, ctxDone, pvars, imu, sa, stopAll, pidFile>>

\* main.go, line 351, process_linux.go RemovePIDFile
MainRemovePIDFile ==
    /\ mainpc = "waited"
    /\ pidFile' = FALSE
    /\ mainpc' = "pidremoved"
    /\ UNCHANGED <<wvars, xvars, hvars, pool, proxy, servers, gs, lvars, bvars, ctxDone, pvars, imu, sa, stopAll>>

\* eventbus Stop, lines 182-185: mark the bus stopped.
BusStop ==
    /\ mainpc = "pidremoved"
    /\ stopped' = TRUE
    /\ mainpc' = "stopping"
    /\ UNCHANGED <<wvars, xvars, hvars, pool, proxy, servers, gs, lvars, tasks, notified, ctxDone, pvars, imu, sa, stopAll, pidFile>>

\* eventbus Stop, line 187: eb.wg.Wait() returns once no goroutine spawned by
\* Emit is left.
BusStopped ==
    /\ mainpc = "stopping"
    /\ \A i \in 1..Len(tasks) : tasks[i].sync
    /\ mainpc' = "done"
    /\ UNCHANGED <<wvars, xvars, hvars, pool, proxy, servers, gs, lvars, bvars, ctxDone, pvars, imu, sa, stopAll, pidFile>>

\* process_linux.go onShutdown and StopAll: one Stop goroutine per instance, wait
\* for all of them, then close every registered connection.
HandleShutdown(i) ==
    /\ i \in 1..Len(tasks)
    /\ tasks[i].type = "shutdown"
    /\ IF tasks[i].pc = "start"
         THEN /\ stopAll' = [pc |-> "workers", pending |-> servers]
              /\ tasks' = [tasks EXCEPT ![i].pc = "stopall"]
              /\ UNCHANGED lvars
         ELSE /\ stopAll.pending = {}
              /\ LET r == CloseAll(registry, conns)
                 IN  registry' = r[1] /\ conns' = r[2]
              /\ stopAll' = [stopAll EXCEPT !.pc = "done"]
              /\ Done(i)
    /\ UNCHANGED <<wvars, xvars, hvars, pool, proxy, servers, gs, stopped, notified, ctxDone, pvars, imu, sa, mainpc, pidFile>>

\* A StopAll worker goroutine calls inst.Stop (process_linux.go line 1105).
WorkerStop(p) == StopBegin(p, "shutdown")

\* The calls of Emit and EmitSync on one event type that are followed.
MaxEmits == 2

\* The handlers subscribed to a server status event: the manager's
\* (process_linux.go line 848) and the MQTT publisher's (mqtt.go line 142).
HandlerNames == {"manager.serverStatus", "mqtt.serverStatus"}

\* How a handler function ends: it returns nil, returns an error, or panics.
Outcomes == {"nil", "error", "panic"}

\* A call that has not been made.
NoEmit ==
    [mode |-> "none", subscribed |-> <<>>, wasStopped |-> FALSE,
     run |-> [h \in HandlerNames |-> "none"], wg |-> 0, firstErr |-> "none",
     errs |-> <<>>, ret |-> "none"]

\* A frame no game server has written yet, and a payload not parsed yet.
NoFrame == [cmd |-> 0, fields |-> <<>>, pairs |-> <<>>, fixed |-> 0, full |-> 0]
NoEvent == [state |-> "none", type |-> "none", fields |-> <<>>, pings |-> <<>>]

\* The first game port; the model numbers the ports from it.
StartingGamePort == 1

\* The instances AddServers may add beyond the configured fleet.
MaxAdded == 3

\* The game ports the fleet may come to use.
FleetPorts == 1..(NumPorts + MaxAdded)

\* process_linux.go initializeServers (lines 872-896): instance i (0-based) of
\* the configured total is put on port start + i with ordinal i + 1.  A port
\* without an instance has ordinal 0 here.
initializeServers(totalServers) ==
    [p \in FleetPorts |->
        IF p >= StartingGamePort /\ p - StartingGamePort < totalServers
          THEN (p - StartingGamePort) + 1 ELSE 0]

\* The mutexes of one instance: Instance.mu (instance.go line 38), GameState.mu
\* and ProcessManager.mu; and the goroutines that take them: an operator's
\* Stop, the handler of a status event, a process monitor and a GetInfo call.
Locks == {"Instance", "GameState", "Process"}
Threads == {"stop", "status", "monitor", "info"}

\* No goroutine has begun and no mutex is held.  prog[t] is the sequence of
\* lock and unlock calls goroutine t makes, pc[t] the next one, held[t] the
\* mutexes it holds in the order it took them.
NoLocksHeld ==
    [holder |-> [l \in Locks |-> "none"],
     prog |-> [t \in Threads |-> <<>>],
     pc |-> [t \in Threads |-> 1],
     held |-> [t \in Threads |-> <<>>]]

\* NewProcessManager as the Windows build uses it: no process, no handle
\* stored (processHandle 0), no handle open, no monitorDirect goroutine.
\* started counts the processes created, each with the handle of that number.
NewWinProcessManager ==
    [running |-> FALSE, processHandle |-> 0, started |-> 0, live |-> {},
     open |-> {}, monitors |-> {}]

\* A socket nothing was written to, and a ReadPacket that has not returned.
NoStream == [declared |-> 0, prefix |-> <<>>, avail |-> 0]
NoPacket == [state |-> "none", len |-> 0]

Init ==
    /\ now = 0
    /\ servers = Ports
    /\ gs = [p \in Ports |-> NewGameState]
    /\ conns = [c \in ConnIds |->
                  [pc |-> "none", port |-> 0, closed |-> FALSE, exit |-> "none",
                   first |-> "none"]]
    /\ registry = [p \in Ports |-> NoConn]
    /\ stopped = FALSE
    /\ tasks = <<>>
    /\ notified = [p \in Ports |-> 0]
    /\ ctxDone = FALSE
    /\ pm = [p \in Ports |-> NewProcessManager]
    /\ alive = [p \in Ports |-> {}]
    /\ monitors = [p \in Ports |-> {}]
    /\ imu = [p \in Ports |-> Free]
    /\ sa = [pc |-> "idle", order |-> <<>>, batchStart |-> 0, pending |-> {},
             batchSuccess |-> 0, totalSuccess |-> 0, totalFail |-> 0,
             waitEnd |-> "none", pollIdx |-> 0, readyCount |-> 0]
    /\ stopAll = [pc |-> "idle", pending |-> {}]
    /\ mainpc = "run"
    /\ pidFile = FALSE
    /\ proxy = [p \in Ports |-> NoProxy]
    /\ pool = NewPool(Ports)
    /\ nextRestart = [p \in Ports |-> NewNextRestart(0, 0)]
    /\ restarts = [p \in Ports |-> NoRestarts]
    /\ health = [p \in Ports |-> NoCheck]
    /\ handlers = <<"manager.serverStatus">>
    /\ emits = [k \in 1..MaxEmits |-> NoEmit]
    /\ ebwg = 0
    /\ ebstop = "none"
    /\ cmd = NoCommand
    /\ priority = [p \in Ports |-> "none"]
    /\ enabled = [p \in Ports |-> TRUE]
    /\ sent = NoFrame
    /\ wire = <<>>
    /\ decoded = NoEvent
    /\ stream = NoStream
    /\ packet = NoPacket
    /\ win = [p \in Ports |-> NewWinProcessManager]
    /\ lk = NoLocksHeld
    /\ fleet = initializeServers(NumPorts)

\* The process supervisor of one instance under operator requests (the
\* supervisors of different instances share no state).
NextProc ==
    \E p \in {1} :
        \/ ApiStart(p)
        \/ \E ok \in BOOLEAN : StartFinish(p, ok)
        \/ ApiStop(p)
        \/ StopFinish(p)
        \/ MonitorBind(p)
        \/ MonitorExit(p)
        \/ ProcessExit(p)

SpecProc == Init /\ [][NextProc]_vars

\* Fleet startup: StartAll and its workers, the game servers dialling in and
\* announcing, and the cancellation of the root context.
NextStartAll ==
    \/ StartAllBegin
    \/ StartAllLoop
    \/ \E p \in Ports : WorkerStart(p)
    \/ \E p \in Ports, ok \in BOOLEAN : StartFinish(p, ok)
    \/ StartAllJoin
    \/ WaitCtx
    \/ WaitDeadline
    \/ WaitTick
    \/ WaitPoll
    \/ \E c \in ConnIds : Accept(c)
    \/ \E c \in ConnIds, p \in Ports : HandshakeRegister(c, p)
    \/ \E c \in ConnIds : EmitAnnounce(c)
    \/ \E i \in 1..MaxInFlight : HandleAnnounce(i)
    \/ MainCancel

SpecStartAll == Init /\ [][NextStartAll]_vars

\* Shutdown: main's shutdown sequence and StopAll, next to fleet startup and
\* one game server connection.
NextShutdown ==
    \/ StartAllBegin
    \/ StartAllLoop
    \/ \E p \in Ports : WorkerStart(p)
    \/ \E p \in Ports, ok \in BOOLEAN : StartFinish(p, ok)
    \/ StartAllJoin
    \/ WaitCtx
    \/ WaitDeadline
    \/ WaitTick
    \/ WaitPoll
    \/ \E c \in {1} : Accept(c)
    \/ \E c \in {1}, p \in Ports : HandshakeRegister(c, p)
    \/ \E c \in {1} : EmitAnnounce(c)
    \/ \E c \in {1} : LoopCheck(c)
    \/ \E c \in {1} : ReadError(c)
    \/ \E c \in {1} : HandleReadErr(c)
    \/ \E i \in 1..MaxInFlight : HandleAnnounce(i)
    \/ MainCancel
    \/ MainEmitShutdown
    \/ \E t \in BOOLEAN : MainWait(t)
    \/ MainRemovePIDFile
    \/ BusStop
    \/ BusStopped
    \/ \E i \in 1..MaxInFlight : HandleShutdown(i)
    \/ \E p \in Ports : WorkerStop(p)
    \/ \E p \in Ports : StopFinish(p)

SpecShutdown == Init /\ [][NextShutdown]_vars

\* ------------------------------------------------ C6

Live(p) == alive[p] # {}

\* A monitor goroutine is waiting on the current command (or is about to):
\* it clears running once the process is gone.
MonitorPending(p) ==
    \E m \in monitors[p] : m.pc = "init" \/ (m.pc = "wait" /\ m.cmd = pm[p].cmd)

\* C6: for every instance the running flag is true iff a live OS process
\* spawned for it exists, up to the delay of the monitor that observes the
\* exit: running without a live process only while that monitor is pending,
\* and never a live process with the flag false.
C6_RunningIffLive ==
    \A p \in Ports :
        /\ pm[p].running => (Live(p) \/ MonitorPending(p))
        /\ ~pm[p].running => ~Live(p)

\* ------------------------------------------------ C5

\* The batch before the one that begins at index start.
PrevBatch == Range(BatchOf(sa.order, sa.batchStart - BatchSize))

\* C5: during StartAll a batch that follows a batch which launched a process
\* is not started until every instance of that earlier batch is ready,
\* occupied, sleeping or stopped, or the 120 s deadline has elapsed.
C5_NextBatchWaitsForReady ==
    [][(sa.pc = "loop" /\ sa'.pc = "workers" /\ sa.batchStart > 0)
          => \/ sa.waitEnd = "deadline"
             \/ \A p \in PrevBatch : gs[p].Status \in StartupTerminal]_vars

\* ------------------------------------------------ C9

\* Every goroutine of the shutdown has returned: main is past eventBus.Stop(),
\* StartAll has returned, no connection handler and no Start or Stop is left.
Quiescent ==
    /\ mainpc = "done"
    /\ sa.pc = "done"
    /\ \A c \in ConnIds : conns[c].pc \in {"none", "done"}
    /\ \A p \in Ports : imu[p] = Free

\* C9: once the shutdown event has been handled, the event bus has drained and
\* every goroutine has returned, every instance is stopped, no server process
\* runs, every game server connection is closed, the registry is empty and
\* the pin-file is deleted.
C9_ShutdownLeavesNothing ==
    Quiescent =>
        /\ \A p \in servers : gs[p].Status = "stopped" /\ ~pm[p].running /\ ~Live(p)
        /\ \A c \in ConnIds : conns[c].pc = "done" => conns[c].closed
        /\ \A p \in Ports : registry[p] = NoConn
        /\ ~pidFile

\* ------------------------------------------------ C1

\* A handleConnection goroutine past Register and before its deferred calls.
InLoop(c) ==
    conns[c].pc \in {"registered", "loop", "reading", "err_timeout", "err_other"}

\* C1: for every port the registry holds at most one live connection: a
\* connection that registered for a port and is still open is the registry's
\* entry for that port; and a Register(p, c2) made while c1 is registered for p
\* closes c1 and leaves exactly c2 registered for p.
C1_OneLiveConnectionPerPort ==
    /\ [](\A c \in ConnIds :
            (InLoop(c) /\ ~conns[c].closed) => registry[conns[c].port] = c)
    /\ [][\A c2 \in ConnIds, p \in Ports :
            (conns[c2].pc = "handshake" /\ conns'[c2].pc = "registered"
               /\ conns'[c2].port = p /\ registry[p] # NoConn)
            => /\ conns'[registry[p]].closed
               /\ registry'[p] = c2
               /\ ~conns'[c2].closed]_vars

\* C1 witness: a second connection registered for a port and the first one,
\* still in its read loop, was closed by the eviction.
C1_Witness ==
    \E c1, c2 \in ConnIds :
        /\ c1 # c2
        /\ InLoop(c1) /\ InLoop(c2)
        /\ conns[c1].port = conns[c2].port
        /\ conns[c1].closed /\ ~conns[c2].closed
        /\ registry[conns[c2].port] = c2

\* ------------------------------------------------ C2

\* The handler task i of a status frame takes its UpdateTelemetry step.
TelemetryStep(i) ==
    /\ tasks[i].type = "status" /\ tasks[i].pc = "telemetry"
    /\ Len(tasks') = Len(tasks)
    /\ tasks'[i].pc \in {"phase", "getstatus"}

\* The handler task i of a status frame takes its GetStatus step.
GetStatusStep(i) ==
    /\ tasks[i].type = "status" /\ tasks[i].pc = "getstatus"
    /\ \/ tasks' = RemoveAt(tasks, i)
       \/ Len(tasks') = Len(tasks) /\ tasks'[i].pc = "setready"

\* The handler task i of a status frame takes its SetStatus(ready) step.
SetReadyStep(i) ==
    /\ tasks[i].type = "status" /\ tasks[i].pc = "setready"
    /\ tasks' = RemoveAt(tasks, i)

\* C2: when a status frame is handled for an instance, an instance that is
\* ready becomes occupied when the frame reports players > 0, an instance that
\* is occupied becomes ready when it reports players = 0, and an instance the
\* handler finds starting becomes ready.
C2_StatusFrameTransitions ==
    [][\A i \in 1..Len(tasks) :
          LET p == tasks[i].port
              n == tasks[i].players
          IN  /\ TelemetryStep(i) =>
                   /\ (gs[p].Status = "ready" /\ n > 0) => gs'[p].Status = "occupied"
                   /\ (gs[p].Status = "occupied" /\ n = 0) => gs'[p].Status = "ready"
                   /\ gs'[p].PlayerCount = n
              /\ (GetStatusStep(i) /\ gs[p].Status = "starting") =>
                   (Len(tasks') = Len(tasks) /\ tasks'[i].pc = "setready")
              /\ SetReadyStep(i) => gs'[p].Status = "ready"]_vars

\* C2 witness: a status frame with a player was handled for a running, ready
\* instance, which is now occupied.
C2_Witness ==
    \E p \in servers :
        gs[p].Status = "occupied" /\ gs[p].PlayerCount > 0 /\ pm[p].running

\* ------------------------------------------------ C3

C4_LostConnectionCloses ==
    [][\A c \in ConnIds :
          (conns[c].pc = "err_other" /\ ~conns[c].closed /\ ~stopped
             /\ conns'[c].pc # conns[c].pc)
          => tasks' = Append(tasks, Task("closed", conns[c].port, 0, "idle"))]_vars

\* ------------------------------------------------ C7

\* The long_frame handler tasks in flight for port p.
LagTasks(p) == {i \in 1..Len(tasks) : tasks[i].type = "long_frame" /\ tasks[i].port = p}

\* C7: no notify_discord_admin is published while the total lag count of an
\* instance is below the critical threshold, and once the count has reached
\* it and every long_frame handler has returned, exactly one was published.
C7_OneNotificationAtCritical ==
    \A p \in servers :
        /\ gs[p].TotalLagEvents < LagCriticalThreshold => notified[p] = 0
        /\ (gs[p].TotalLagEvents >= LagCriticalThreshold /\ LagTasks(p) = {})
              => notified[p] = 1

\* ------------------------------------------------ C8

\* Handler task i took a step: it advanced or returned.
Stepped(i) ==
    \/ tasks' = RemoveAt(tasks, i)
    \/ Len(tasks') = Len(tasks) /\ tasks'[i] # tasks[i]

\* Task j was emitted before task i for the same instance and the same handler.
EmittedBefore(j, i) ==
    j < i /\ tasks[j].type = tasks[i].type /\ tasks[j].port = tasks[i].port

\* C8: events for one instance take effect in emit order per handler: a
\* handler task steps only when no task emitted earlier for the same port and
\* the same handler is still in flight.
C8_EmitOrderPerHandler ==
    [][(tasks' # tasks /\ Len(tasks') <= Len(tasks))
          => \E i \in 1..Len(tasks) :
                Stepped(i) /\ ~\E j \in 1..Len(tasks) : EmittedBefore(j, i)]_vars

\* ------------------------------------------------ C10

\* The handler goroutines Emit spawned that are in flight.
EmitTasks(ts) == SelectSeq(ts, LAMBDA t : ~t.sync)

\* C10: once the bus is marked stopped an Emit spawns no handler, and
\* EventBus.Stop() returns only when no handler goroutine is in flight,
\* whether Emit or EmitSync spawned it.
C10_StopWaitsForAllHandlers ==
    /\ [][stopped => Len(EmitTasks(tasks')) <= Len(EmitTasks(tasks))]_vars
    /\ [][(mainpc = "stopping" /\ mainpc' = "done")
            => \A i \in 1..Len(tasks) : tasks[i].pc = "checked"]_vars

\* The listener and the registry: game servers dial in, announce, go idle
\* or break; the manager handles the announce and closed events.
NextListener ==
    \/ \E c \in ConnIds : Accept(c)
    \/ \E c \in ConnIds : HandshakeFail(c)
    \/ \E c \in ConnIds, p \in Ports : HandshakeRegister(c, p)
    \/ \E c \in ConnIds : EmitAnnounce(c)
    \/ \E c \in ConnIds : LoopCheck(c)
    \/ \E c \in ConnIds : ReadTimeout(c)
    \/ \E c \in ConnIds : ReadError(c)
    \/ \E c \in ConnIds : HandleReadErr(c)
    \/ \E i \in 1..MaxInFlight : HandleAnnounce(i)
    \/ \E i \in 1..MaxInFlight : HandleClosed(i)

SpecListener == Init /\ [][NextListener]_vars

\* One instance, started and stopped through the API, and its game server
\* sending status frames.
NextStatus ==
    \/ \E p \in {1} : ApiStart(p)
    \/ \E p \in {1}, ok \in BOOLEAN : StartFinish(p, ok)
    \/ \E p \in {1} : ApiStop(p)
    \/ \E p \in {1} : StopFinish(p)
    \/ \E c \in {1} : Accept(c)
    \/ \E c \in {1}, p \in {1} : HandshakeRegister(c, p)
    \/ \E c \in {1} : EmitAnnounce(c)
    \/ \E c \in {1} : LoopCheck(c)
    \/ \E c \in {1} : RecvStatusIdle(c)
    \/ \E i \in 1..MaxInFlight : HandleAnnounce(i)
    \/ \E i \in 1..MaxInFlight : HandleStatus(i)

SpecStatus == Init /\ [][NextStatus]_vars

\* One instance and its game server sending status frames as its match
\* begins and ends.
NextOrder ==
    \/ \E p \in {1} : ApiStart(p)
    \/ \E p \in {1}, ok \in BOOLEAN : StartFinish(p, ok)
    \/ \E c \in {1} : Accept(c)
    \/ \E c \in {1}, p \in {1} : HandshakeRegister(c, p)
    \/ \E c \in {1} : EmitAnnounce(c)
    \/ \E c \in {1} : LoopCheck(c)
    \/ \E c \in {1} : RecvStatus(c)
    \/ \E i \in 1..MaxInFlight : HandleAnnounce(i)
    \/ \E i \in 1..MaxInFlight : HandleStatus(i)

SpecOrder == Init /\ [][NextOrder]_vars

\* One game server sending long_frame frames.
NextLag ==
    \/ \E c \in {1} : Accept(c)
    \/ \E c \in {1}, p \in {1} : HandshakeRegister(c, p)
    \/ \E c \in {1} : EmitAnnounce(c)
    \/ \E c \in {1} : LoopCheck(c)
    \/ \E c \in {1} : RecvLongFrame(c)
    \/ \E i \in 1..MaxInFlight : HandleAnnounce(i)
    \/ \E i \in 1..MaxInFlight : HandleLongFrame(i)

SpecLag == Init /\ [][NextLag]_vars

\* The event bus: Emit (a game server announcing), EmitSync, and main's
\* shutdown sequence up to the return of EventBus.Stop().
NextBus ==
    \/ \E c \in {1} : Accept(c)
    \/ \E c \in {1}, p \in {1} : HandshakeRegister(c, p)
    \/ \E c \in {1} : EmitAnnounce(c)
    \/ \E c \in {1} : LoopCheck(c)
    \/ \E p \in {1} : EmitSyncCheck(p)
    \/ \E i \in 1..MaxInFlight : EmitSyncSpawn(i)
    \/ \E i \in 1..MaxInFlight : HandleAnnounce(i)
    \/ MainCancel
    \/ MainEmitShutdown
    \/ \E t \in {TRUE} : MainWait(t)
    \/ MainRemovePIDFile
    \/ BusStop
    \/ BusStopped
    \/ \E i \in 1..MaxInFlight : HandleShutdown(i)
    \/ \E p \in Ports : WorkerStop(p)
    \/ \E p \in Ports : StopFinish(p)

SpecBus == Init /\ [][NextBus]_vars

\* ------------------------------------------------ Manager.AddServers, RemoveServers

\* process_linux.go AddServers, lines 1401-1406: the port after the highest
\* current port, the first game port for an empty pool.
MaxPort(S) ==
    IF \E p \in S : p >= StartingGamePort
      THEN (CHOOSE p \in S : \A q \in S : q <= p) + 1
      ELSE StartingGamePort

\* process_linux.go AddServers, lines 1410-1411: the ordinal of the instance
\* created in iteration i (0-based) of the loop, c being the size of the pool
\* when AddServers was entered: len(m.servers) has grown by i by then.
AddedId(c, i) == ((c + i) + i) + 1

\* process_linux.go AddServers: under m.mu, create count instances on the
\* ports after the highest one, spawn a goroutine that starts each with the
\* caller's context, and persist the new total. The REST handler
\* (routes_config.go handleAddServers) passes its request's context.
AddServers(count) ==
    LET maxPort == MaxPort(servers)
        c == Cardinality(servers)
        new == maxPort..(maxPort + count - 1)
    IN  /\ pool.req = "none"
        /\ maxPort + count - 1 <= NumPorts
        /\ servers' = servers \cup new
        /\ gs' = [p \in Ports |-> IF p \in new THEN NewGameState ELSE gs[p]]
        /\ pm' = [p \in Ports |-> IF p \in new THEN NewProcessManager ELSE pm[p]]
        /\ monitors' = [p \in Ports |-> IF p \in new THEN {} ELSE monitors[p]]
        /\ imu' = [p \in Ports |-> IF p \in new THEN Free ELSE imu[p]]
        /\ proxy' = [p \in Ports |-> IF p \in new THEN NoProxy ELSE proxy[p]]
        /\ pool' = [ids |-> [p \in Ports |-> IF p \in new
                                THEN AddedId(c, p - maxPort) ELSE pool.ids[p]],
                    starting |-> pool.starting \cup new,
                    total |-> Cardinality(servers \cup new),
                    req |-> "active"]
        /\ nextRestart' = [p \in Ports |-> IF p \in new
                               THEN NewNextRestart(now, 0) ELSE nextRestart[p]]
        /\ restarts' = [p \in Ports |-> IF p \in new THEN NoRestarts ELSE restarts[p]]
        /\ enabled' = [p \in Ports |-> IF p \in new THEN TRUE ELSE enabled[p]]
        /\ UNCHANGED <<wvars, evars, cmd, priority, now, health, lvars, bvars, ctxDone, alive, fvars>>

\* routes_config.go handleAddServers, lines 97-101: the handler answers and
\* returns, which cancels the request's context.
RequestEnds ==
    /\ pool.req = "active"
    /\ pool' = [pool EXCEPT !.req = "done"]
    /\ UNCHANGED <<wvars, xvars, hvars, proxy, servers, gs, lvars, bvars, ctxDone, pvars, imu, fvars>>

\* GameProxy (reuseaddr_windows.go lines 164-202, 207-232, 266-286): once the
\* context the proxy was started with is cancelled, its session cleanup
\* returns, its relays stop waiting for the client, and its accept and read
\* loops leave, closing the listeners, on their next error.
ProxyCtxDone(p) ==
    /\ proxy[p].state = "up"
    /\ Cancelled(proxy[p].ctx)
    /\ proxy' = [proxy EXCEPT ![p].state = "torn"]
    /\ UNCHANGED <<wvars, xvars, hvars, pool, servers, gs, lvars, bvars, ctxDone, pvars, imu, fvars>>

\* process_linux.go RemoveServers, lines 1441-1462: under m.mu, Stop every
\* listed instance of the pool and delete it, then persist the new total.
\* Instance.Stop waits for i.mu.
RemoveServers(S) ==
    LET R == S \cap servers
    IN  /\ \A p \in R : imu[p] = Free
        /\ gs' = [p \in Ports |-> IF p \in R THEN SetStatus(gs[p], "stopped") ELSE gs[p]]
        /\ pm' = [p \in Ports |-> IF p \in R THEN PmStop(pm[p], alive[p])[1] ELSE pm[p]]
        /\ alive' = [p \in Ports |-> IF p \in R THEN PmStop(pm[p], alive[p])[2] ELSE alive[p]]
        /\ proxy' = [p \in Ports |-> IF p \in R THEN NoProxy ELSE proxy[p]]
        /\ servers' = servers \ R
        /\ pool' = [pool EXCEPT !.ids = [p \in Ports |-> IF p \in R THEN 0 ELSE @[p]],
                                !.total = Cardinality(servers \ R)]
        /\ UNCHANGED <<wvars, xvars, hvars, lvars, bvars, ctxDone, monitors, imu, fvars>>

\* The pool of instances under REST requests: servers are removed and added,
\* the added instances are started by the goroutines AddServers spawned, the
\* request that added them ends, and an operator stops instances.
NextPool ==
    \/ \E S \in SUBSET Ports : RemoveServers(S)
    \/ \E n \in 1..NumPorts : AddServers(n)
    \/ \E p \in Ports : StartBegin(p, "add")
    \/ \E p \in Ports, ok \in BOOLEAN : StartFinish(p, ok)
    \/ RequestEnds
    \/ \E p \in Ports : ProxyCtxDone(p)
    \/ \E p \in Ports : ApiStop(p)
    \/ \E p \in Ports : StopFinish(p)

SpecPool == Init /\ [][NextPool]_vars

\* ------------------------------------------------ C11

\* C11: cancelling the context of the request that added servers, after
\* AddServers returned, tears down no proxy: every proxy an instance holds
\* is up, whatever became of the request.
C11_RequestCancelTearsDownNothing ==
    \A p \in Ports : proxy[p].state # "none" => proxy[p].state = "up"

\* ------------------------------------------------ C20

\* The instances a step added to the pool.
Added == servers' \ servers

\* C20: a call of AddServers gives the k-th instance it creates (in port
\* order) the ordinal c + k, c being the number of instances before the
\* call; it puts the new instances on the ports after the highest one,
\* leaves a start pending for each and persists the new total.
C20_AddServersContinuesOrdinals ==
    [][(pool.req = "none" /\ pool'.req = "active") =>
          /\ \A p \in Added :
                pool'.ids[p] = Cardinality(servers) + Cardinality({q \in Added : q <= p})
          /\ \A p \in Added, q \in servers : q < p
          /\ Added \subseteq pool'.starting
          /\ pool'.total = Cardinality(servers) + Cardinality(Added)]_vars

\* ------------------------------------------------ C14

\* Start returns on instance p with a spawn that failed: the command it
\* built has no process.
StartFailed(p) ==
    /\ imu[p].op = "start"
    /\ imu'[p] = Free
    /\ ~pm'[p].started

\* C14: when the spawn fails during Instance.Start, Start returns an error
\* (a StartAll worker counts a failure), the status is stopped, the process
\* is not marked running, and the proxy is stopped and discarded.
C14_FailedStartCleansUp ==
    [][\A p \in Ports : StartFailed(p) =>
          /\ gs'[p].Status = "stopped"
          /\ ~pm'[p].running
          /\ proxy'[p] = NoProxy
          /\ imu[p].by = "all" =>
                /\ sa'.totalFail = sa.totalFail + 1
                /\ sa'.batchSuccess = sa.batchSuccess]_vars

\* A start by a StartAll worker failed: the worker counted the failure, the
\* instance is stopped with a command that has no process, and holds no
\* proxy.
C14_Witness ==
    \E p \in Ports :
        /\ imu[p] = Free
        /\ pm[p].cmd > 0
        /\ ~pm[p].started
        /\ sa.totalFail > 0
        /\ gs[p].Status = "stopped"
        /\ proxy[p] = NoProxy

\* Fleet startup with no game server dialling in: StartAll, its workers and
\* the spawns, which succeed or fail.
NextSpawn ==
    \/ StartAllBegin
    \/ StartAllLoop
    \/ \E p \in Ports : WorkerStart(p)
    \/ \E p \in Ports, ok \in BOOLEAN : StartFinish(p, ok)
    \/ StartAllJoin
    \/ WaitCtx
    \/ WaitDeadline
    \/ WaitTick
    \/ WaitPoll
    \/ MainCancel

SpecSpawn == Init /\ [][NextSpawn]_vars

\* ------------------------------------------------ C19

\* The process of instance p's current command exited on its own and its
\* monitor has observed the exit; no Start or Stop is in progress.
ExitObserved(p) ==
    /\ pm[p].started
    /\ ~pm[p].running
    /\ ~Live(p)
    /\ ~MonitorPending(p)
    /\ imu[p] = Free

\* C19: once the supervised process of an instance has exited on its own and
\* the monitor has observed it, the instance's status is stopped.
C19_ExitSetsStopped ==
    \A p \in Ports : ExitObserved(p) => gs[p].Status = "stopped"

\* ------------------------------------------------ health check, Instance.Restart

\* The clock is observed after at most MaxShort short steps and MaxLong long
\* ones: a short step is just over the stuck limit, a long one just over the
\* shortest restart interval.
MaxShort == 2
MaxLong == 1
ShortStep == StuckLimit + 1
LongStep == MinRestartInterval + 1
Times == {a * ShortStep + b * LongStep : a \in 0..MaxShort, b \in 0..MaxLong}

\* The Restart goroutines one instance may have at a time.
MaxRestarts == 2

\* Time passes.
Advance(d) ==
    /\ now + d \in Times
    /\ now' = now + d
    /\ UNCHANGED <<wvars, xvars, nextRestart, restarts, health, pool, proxy, servers, gs, lvars,
                   bvars, ctxDone, pvars, imu, fvars>>

\* A Reset that also zeroes the total of lag events.
ResetTotal(g) ==
    [g EXCEPT !.Status = "queued", !.Phase = "idle", !.PlayerCount = 0,
              !.SkippedFrames = 0, !.StatusChangedAt = now,
              !.Players = {}, !.PlayerPings = <<>>, !.MatchID = 0,
              !.TotalLagEvents = 0]

\* state.go GameState.Reset, lines 208-225: the defaults, stamped now; the
\* total of lag events is not among the fields it resets.
Reset(g) ==
    [g EXCEPT !.Status = "queued", !.Phase = "idle", !.PlayerCount = 0,
              !.SkippedFrames = 0, !.StatusChangedAt = now,
              !.Players = {}, !.PlayerPings = <<>>, !.MatchID = 0]

\* instance.go NeedsRestart, lines 360-370.
NeedsRestart(p) == gs[p].Phase = "idle" /\ now > nextRestart[p]

\* health/manager.go checkGeneralHealth, lines 167-173: a running instance
\* in status starting for more than two minutes.
Stuck(p) == gs[p].Status = "starting" /\ now - gs[p].StatusChangedAt > StuckLimit

\* health/manager.go checkGeneralHealth, lines 164-182: the Restart
\* goroutines the check spawns for instance p: none when it is not running,
\* else one when it is stuck and one when its periodic restart is due.
Issued(p) ==
    IF p \in servers /\ pm[p].running
      THEN (IF Stuck(p) THEN 1 ELSE 0) + (IF NeedsRestart(p) THEN 1 ELSE 0)
      ELSE 0

RestartCount(p) ==
    restarts[p].stop + restarts[p].reset + restarts[p].resample + restarts[p].start

\* health/manager.go checkGeneralHealth, lines 160-183: one tick of the
\* general health check over all instances. health records, per instance,
\* whether the instance was running, idle and past its next restart, and
\* how many Restart goroutines the tick spawned for it.
HealthTick ==
    /\ ~ctxDone
    /\ \A p \in Ports : RestartCount(p) + Issued(p) <= MaxRestarts
    /\ restarts' = [p \in Ports |-> [restarts[p] EXCEPT !.stop = @ + Issued(p)]]
    /\ health' = [p \in Ports |->
                    [due |-> p \in servers /\ pm[p].running /\ NeedsRestart(p),
                     issued |-> Issued(p)]]
    /\ UNCHANGED <<wvars, xvars, now, nextRestart, pool, proxy, servers, gs, lvars, bvars, ctxDone,
                   pvars, imu, fvars>>

\* instance.go Restart, line 191: i.Stop().
RestartStop(p) == StopBegin(p, "restart")

\* instance.go Restart, lines 196-199: after the two-second sleep,
\* i.state.Reset().
RestartReset(p) ==
    /\ restarts[p].reset > 0
    /\ gs' = [gs EXCEPT ![p] = Reset(@)]
    /\ restarts' = [restarts EXCEPT ![p].reset = @ - 1, ![p].resample = @ + 1]
    /\ UNCHANGED <<wvars, xvars, now, nextRestart, health, pool, proxy, servers, lvars, bvars,
                   ctxDone, pvars, imu, fvars>>

\* instance.go Restart, lines 202-205: under i.mu, nextRestart is resampled.
RestartResample(p, r) ==
    /\ restarts[p].resample > 0
    /\ imu[p] = Free
    /\ nextRestart' = [nextRestart EXCEPT ![p] = NewNextRestart(now, r)]
    /\ restarts' = [restarts EXCEPT ![p].resample = @ - 1, ![p].start = @ + 1]
    /\ UNCHANGED <<wvars, xvars, now, health, pool, proxy, servers, gs, lvars, bvars, ctxDone,
                   pvars, imu, fvars>>

\* instance.go Restart, line 207: i.Start(ctx).
RestartStart(p) == StartBegin(p, "restart")

\* One instance under the health check: an operator starts and stops it,
\* time passes, the general health check ticks and the Restart goroutines it
\* spawns run.
NextHealth ==
    \/ \E d \in {ShortStep, LongStep} : Advance(d)
    \/ HealthTick
    \/ \E p \in {1} :
        \/ ApiStart(p)
        \/ \E ok \in BOOLEAN : StartFinish(p, ok)
        \/ ApiStop(p)
        \/ StopFinish(p)
        \/ RestartStop(p)
        \/ RestartReset(p)
        \/ \E r \in RandomOffsets : RestartResample(p, r)
        \/ RestartStart(p)

SpecHealth == Init /\ [][NextHealth]_vars

\* ------------------------------------------------ C15

\* C15: a health tick that finds an instance running, idle and past its
\* next restart issues exactly one Restart for it.
C15_OneRestartPerTick ==
    \A p \in Ports : health[p].due => health[p].issued = 1

\* ------------------------------------------------ C16

\* Instance p is stopped: status stopped and no running process.
AlreadyStopped(p) == gs[p].Status = "stopped" /\ ~pm[p].running

\* C16: a Stop entered on an instance that is already stopped leaves its
\* state as it was (the status, the phase, the match data and the time of
\* the last status change), and leaves its running flag false when it returns.
C16_StopOnStoppedIsNoOp ==
    [][\A p \in Ports :
          /\ (AlreadyStopped(p) /\ imu[p] = Free /\ imu'[p].op = "stop")
                => gs'[p] = gs[p]
          /\ (AlreadyStopped(p) /\ imu[p].op = "stop" /\ imu'[p] = Free)
                => (gs'[p] = gs[p] /\ pm'[p] = pm[p])]_vars

\* ------------------------------------------------ C17

\* C17: the lag history of an instance never holds more than 1000 entries.
C17_LagHistoryCapped ==
    \A p \in Ports : gs[p].SkippedFrames <= 1000

\* ------------------------------------------------ C18

\* C18: when a status frame with player_count = 1 and the pair (p1, 40) is
\* handled for an instance in status ready, the instance becomes occupied
\* and its player set contains p1.
C18_StatusFrameAddsPlayer ==
    [][\A i \in 1..Len(tasks) :
          LET p == tasks[i].port
          IN  (TelemetryStep(i) /\ gs[p].Status = "ready" /\ tasks[i].players = 1) =>
                 /\ gs'[p].Status = "occupied"
                 /\ "p1" \in gs'[p].Players]_vars

\* ------------------------------------------------ C12

\* Connection c is past its handshake.
PastHandshake(c) == conns[c].pc \notin {"none", "handshake"}

\* Connection c was dropped at the handshake: its socket is closed, its
\* goroutine has returned, and the registry does not hold it.
Dropped(c) ==
    /\ conns[c].pc = "done"
    /\ conns[c].exit = "handshake"
    /\ conns[c].closed
    /\ \A p \in Ports : registry[p] # c

\* C12: a connection is registered, and goes on to publish events, only when
\* its first frame decoded as an announce; when the first frame is another
\* command, does not decode, or does not arrive within the handshake
\* deadline, the socket is closed, nothing is registered, and the handshake
\* publishes no event.
C12_HandshakeGatesRegistration ==
    /\ [](\A c \in ConnIds :
            /\ (PastHandshake(c) /\ conns[c].first # "announce") => Dropped(c)
            /\ (\E p \in Ports : registry[p] = c) => conns[c].first = "announce")
    /\ [][\A c \in ConnIds :
            (conns[c].pc = "handshake" /\ conns'[c].pc # "handshake") =>
                /\ tasks' = tasks
                /\ conns'[c].first # "announce" => registry' = registry]_vars

\* C12 witness: one connection was dropped because its first frame was a
\* status frame, another announced and is registered and reading.
C12_Witness ==
    \E c1, c2 \in ConnIds :
        /\ conns[c1].first = "status" /\ Dropped(c1)
        /\ conns[c2].first = "announce" /\ conns[c2].pc = "reading"
        /\ registry[conns[c2].port] = c2

\* One game server connection that sends status frames and malformed frames.
NextFrames ==
    \/ \E c \in {1} : Accept(c)
    \/ \E c \in {1}, p \in {1} : HandshakeRegister(c, p)
    \/ \E c \in {1} : EmitAnnounce(c)
    \/ \E c \in {1} : LoopCheck(c)
    \/ \E c \in {1} : RecvStatusIdle(c)
    \/ \E c \in {1}, f \in MalformedFrames : RecvMalformed(c, f)
    \/ \E c \in {1} : HandleReadErr(c)
    \/ \E i \in 1..MaxInFlight : HandleAnnounce(i)
    \/ \E i \in 1..MaxInFlight : HandleStatus(i)

SpecFrames == Init /\ [][NextFrames]_vars

\* ------------------------------------------------ C13

\* C13: after the handshake, a frame on which reading fails with a decode
\* error is discarded: the connection stays open and registered and goes
\* back to the top of its read loop, so that the frames that follow are
\* published.
C13_MalformedFrameIsDiscarded ==
    [][\A c \in ConnIds :
          (conns[c].pc = "err_decode" /\ ~conns[c].closed
                /\ conns'[c].pc # "err_decode")
             => /\ conns'[c].pc = "loop"
                /\ ~conns'[c].closed
                /\ registry'[conns[c].port] = c]_vars

\* ------------------------------------------------ C21

\* The instances StartAll has handed to a worker so far: a Start was
\* attempted on them, is in progress, or is pending in the current batch.
Launched ==
    {p \in servers : pm[p].cmd > 0 \/ imu[p].op = "start" \/ p \in sa.pending}

Crashed == \E k \in 1..MaxEmits, h \in HandlerNames : emits[k].run[h] = "crashed"

\* eventbus Subscribe: append the named handler.
Subscribe(name) ==
    /\ ~Crashed
    /\ name \notin {handlers[i] : i \in 1..Len(handlers)}
    /\ handlers' = Append(handlers, name)
    /\ UNCHANGED <<wvars, enabled, priority, cmd, emits, ebwg, ebstop, hvars, pool, proxy, servers, gs, lvars, bvars,
                   ctxDone, pvars, imu, fvars>>

\* eventbus Unsubscribe: filter the named handler out.
Unsubscribe(name) ==
    /\ ~Crashed
    /\ handlers' = SelectSeq(handlers, LAMBDA h : h # name)
    /\ UNCHANGED <<wvars, enabled, priority, cmd, emits, ebwg, ebstop, hvars, pool, proxy, servers, gs, lvars, bvars,
                   ctxDone, pvars, imu, fvars>>

\* One goroutine per handler entry.
Spawned(hs) ==
    [h \in HandlerNames |->
        IF h \in {hs[i] : i \in 1..Len(hs)} THEN "running" ELSE "none"]

\* eventbus Emit, lines 80-123: nothing on a stopped bus or without handlers;
\* otherwise one goroutine per handler, each counted in eb.wg, and return.
EmitAsync(k) ==
    /\ ~Crashed
    /\ emits[k].mode = "none"
    /\ IF k = 1 THEN TRUE ELSE emits[k - 1].mode # "none"
    /\ IF stopped \/ handlers = <<>>
         THEN /\ emits' = [emits EXCEPT ![k] =
                    [NoEmit EXCEPT !.mode = "async", !.subscribed = handlers,
                                   !.wasStopped = stopped, !.ret = "nil"]]
              /\ UNCHANGED ebwg
         ELSE /\ emits' = [emits EXCEPT ![k] =
                    [NoEmit EXCEPT !.mode = "async", !.subscribed = handlers,
                                   !.run = Spawned(handlers), !.ret = "nil"]]
              /\ ebwg' = ebwg + Len(handlers)
    /\ UNCHANGED <<wvars, enabled, priority, cmd, handlers, ebstop, hvars, pool, proxy, servers, gs, lvars, bvars,
                   ctxDone, pvars, imu, fvars>>

\* eventbus EmitSync, lines 127-173: nil on a stopped bus or without handlers;
\* otherwise copy the handlers and spawn one goroutine per copy, counted in a
\* WaitGroup of the call.
EmitSyncCall(k) ==
    /\ ~Crashed
    /\ emits[k].mode = "none"
    /\ IF k = 1 THEN TRUE ELSE emits[k - 1].mode # "none"
    /\ emits' = [emits EXCEPT ![k] =
          IF stopped \/ handlers = <<>>
            THEN [NoEmit EXCEPT !.mode = "sync", !.subscribed = handlers,
                                !.wasStopped = stopped, !.ret = "nil"]
            ELSE [NoEmit EXCEPT !.mode = "sync", !.subscribed = handlers,
                                !.run = Spawned(handlers), !.wg = Len(handlers),
                                !.ret = "pending"]]
    /\ UNCHANGED <<wvars, enabled, priority, cmd, handlers, ebwg, ebstop, hvars, pool, proxy, servers, gs, lvars, bvars,
                   ctxDone, pvars, imu, fvars>>

RecoverNothing(outcome) == IF outcome = "panic" THEN "crashed" ELSE outcome

\* The deferred recover() of a handler goroutine (Emit lines 104-112, EmitSync
\* lines 154-162): a panic is logged and the goroutine ends normally.
Recover(outcome) == IF outcome = "panic" THEN "recovered" ELSE outcome

ErrLast(first, h) == h

\* EmitSync, lines 164-165: errOnce.Do keeps the error of the first handler
\* that reports one.
ErrOnce(first, h) == IF first = "none" THEN h ELSE first

\* A handler goroutine ends: the handler returned or panicked, the deferred
\* recover ran, then the deferred wg.Done().
HandlerEnd(k, h, outcome) ==
    /\ ~Crashed
    /\ emits[k].run[h] = "running"
    /\ LET e    == emits[k]
           st   == Recover(outcome)
           done == st # "crashed"
       IN  /\ emits' = [emits EXCEPT ![k] =
                 [e EXCEPT !.run[h] = st,
                           !.errs = IF e.mode = "sync" /\ outcome = "error"
                                      THEN Append(@, h) ELSE @,
                           !.wg = IF e.mode = "sync" /\ done THEN @ - 1 ELSE @,
                           !.firstErr = IF e.mode = "sync" /\ outcome = "error"
                                          THEN ErrOnce(@, h) ELSE @]]
           /\ ebwg' = IF e.mode = "async" /\ done THEN ebwg - 1 ELSE ebwg
    /\ UNCHANGED <<wvars, enabled, priority, cmd, handlers, ebstop, hvars, pool, proxy, servers, gs, lvars, bvars,
                   ctxDone, pvars, imu, fvars>>

\* EmitSync, lines 175-176: wg.Wait() and return firstErr.
EmitSyncReturn(k) ==
    /\ ~Crashed
    /\ emits[k].mode = "sync"
    /\ emits[k].ret = "pending"
    /\ emits[k].wg = 0
    /\ emits' = [emits EXCEPT ![k].ret =
                    IF emits[k].firstErr = "none" THEN "nil" ELSE emits[k].firstErr]
    /\ UNCHANGED <<wvars, enabled, priority, cmd, handlers, ebwg, ebstop, hvars, pool, proxy, servers, gs, lvars, bvars,
                   ctxDone, pvars, imu, fvars>>

\* eventbus Stop, lines 181-185: mark the bus stopped and close stopCh.
StopCall ==
    /\ ~Crashed
    /\ ebstop = "none"
    /\ stopped' = TRUE
    /\ ebstop' = "waiting"
    /\ UNCHANGED <<wvars, enabled, priority, cmd, handlers, emits, ebwg, hvars, pool, proxy, servers, gs, lvars, tasks,
                   notified, ctxDone, pvars, imu, fvars>>

\* eventbus Stop, line 187: eb.wg.Wait() returns.
StopReturn ==
    /\ ~Crashed
    /\ ebstop = "waiting"
    /\ ebwg = 0
    /\ ebstop' = "returned"
    /\ UNCHANGED <<wvars, enabled, priority, cmd, handlers, emits, ebwg, hvars, pool, proxy, servers, gs, lvars, bvars,
                   ctxDone, pvars, imu, fvars>>

\* The bus under Emit, Subscribe, Unsubscribe and Stop on one event type
\* whose handlers may return nil, return an error or panic.
NextDispatch ==
    \/ Subscribe("mqtt.serverStatus")
    \/ Unsubscribe("mqtt.serverStatus")
    \/ \E k \in 1..MaxEmits : EmitAsync(k)
    \/ \E k \in 1..MaxEmits, h \in HandlerNames, outcome \in Outcomes :
          HandlerEnd(k, h, outcome)
    \/ StopCall
    \/ StopReturn

SpecDispatch == Init /\ [][NextDispatch]_vars

\* The bus under EmitSync, Subscribe, Unsubscribe and Stop on the same event
\* type.
NextEmitSync ==
    \/ Subscribe("mqtt.serverStatus")
    \/ Unsubscribe("mqtt.serverStatus")
    \/ \E k \in 1..MaxEmits : EmitSyncCall(k)
    \/ \E k \in 1..MaxEmits, h \in HandlerNames, outcome \in Outcomes :
          HandlerEnd(k, h, outcome)
    \/ \E k \in 1..MaxEmits : EmitSyncReturn(k)
    \/ StopCall

SpecEmitSync == Init /\ [][NextEmitSync]_vars

\* ------------------------------------------------ C22

\* The handler goroutines of Emit calls that have not ended.
AsyncRunning ==
    {<<k, h>> \in (1..MaxEmits) \X HandlerNames :
        emits[k].mode = "async" /\ emits[k].run[h] = "running"}

\* C22: a panic inside a handler is recovered: it ends no other goroutine and
\* not the program, every handler subscribed when an Emit dispatched has its
\* goroutine, and eb.wg counts exactly the Emit goroutines still running, so
\* that Stop() returns once they have ended.
C22_PanicIsRecovered ==
    /\ ~Crashed
    /\ ebwg = Cardinality(AsyncRunning)
    /\ \A k \in 1..MaxEmits :
          (emits[k].mode = "async" /\ ~emits[k].wasStopped)
             => \A i \in 1..Len(emits[k].subscribed) :
                   emits[k].run[emits[k].subscribed[i]] \in
                      {"running", "nil", "error", "recovered"}

\* The manager's handler panicked in the first Emit, the MQTT handler of the
\* same Emit returned, a later Emit dispatched and ended, and Stop() returned.
C22_Witness ==
    /\ emits[1].mode = "async"
    /\ emits[1].run["manager.serverStatus"] = "recovered"
    /\ emits[1].run["mqtt.serverStatus"] = "nil"
    /\ emits[2].mode = "async"
    /\ emits[2].run["manager.serverStatus"] = "nil"
    /\ ebstop = "returned"

\* ------------------------------------------------ C23

\* C23: an EmitSync call that dispatched has returned only when every handler
\* subscribed at the time of the call has ended, and its result is the error
\* of the handler that was first to return one, nil when none did (a panic is
\* no error); on a stopped bus it dispatches nothing and returns nil.
C23_EmitSyncWaitsAndReturnsFirstError ==
    \A k \in 1..MaxEmits :
        (emits[k].mode = "sync" /\ emits[k].ret # "pending")
           => /\ ~emits[k].wasStopped
                   => \A i \in 1..Len(emits[k].subscribed) :
                         emits[k].run[emits[k].subscribed[i]] \in
                            {"nil", "error", "recovered"}
              /\ emits[k].ret =
                    IF emits[k].errs = <<>> THEN "nil" ELSE emits[k].errs[1]

\* Both handlers of one EmitSync returned an error, the MQTT handler first,
\* and the call returned that one; another call returned nil although a
\* handler panicked.
C23_Witness ==
    \E k, j \in 1..MaxEmits :
        /\ emits[k].mode = "sync"
        /\ emits[k].errs = <<"mqtt.serverStatus", "manager.serverStatus">>
        /\ emits[k].ret = "mqtt.serverStatus"
        /\ emits[j].mode = "sync"
        /\ emits[j].run["manager.serverStatus"] = "recovered"
        /\ emits[j].ret = "nil"

\* ------------------------------------------------ operator commands

\* The ports an operator command may name: those of the fleet and one that
\* has no instance.
CmdPorts == 1..(NumPorts + 1)

\* process_linux.go onCmdShutdownServer, lines 1315-1325: Stop the instance of
\* the port and return its result; an error when there is none.
OnCmdShutdownServer(port) ==
    IF port \in servers
      THEN StopBegin(port, "cmd")
      ELSE /\ cmd.pc # "stop"
           /\ cmd' = [name |-> "shutdown_server", port |-> port, pc |-> "done",
                      err |-> "error"]
           /\ UNCHANGED <<wvars, evars, enabled, priority, hvars, pool, proxy, servers, gs, lvars,
                          bvars, ctxDone, pvars, imu, fvars>>

\* process_linux.go onCmdWakeServer, lines 1327-1340: a sleeping instance is
\* set ready; nil in every case.
OnCmdWakeServer(port) ==
    /\ cmd.pc # "stop"
    /\ gs' = IF port \in servers /\ gs[port].Status = "sleeping"
               THEN [gs EXCEPT ![port] = SetStatus(@, "ready")]
               ELSE gs
    /\ cmd' = [name |-> "wake_server", port |-> port, pc |-> "done", err |-> "nil"]
    /\ UNCHANGED <<wvars, evars, enabled, priority, hvars, pool, proxy, servers, lvars, bvars, ctxDone,
                   pvars, imu, fvars>>

\* process_linux.go onCmdSleepServer, lines 1342-1353: the instance is set
\* sleeping; nil in every case.
OnCmdSleepServer(port) ==
    /\ cmd.pc # "stop"
    /\ gs' = IF port \in servers
               THEN [gs EXCEPT ![port] = SetStatus(@, "sleeping")]
               ELSE gs
    /\ cmd' = [name |-> "sleep_server", port |-> port, pc |-> "done", err |-> "nil"]
    /\ UNCHANGED <<wvars, evars, enabled, priority, hvars, pool, proxy, servers, lvars, bvars, ctxDone,
                   pvars, imu, fvars>>

\* The fleet under operator commands and operator starts.
NextCmd ==
    \/ \E port \in CmdPorts : OnCmdShutdownServer(port)
    \/ \E port \in CmdPorts : OnCmdWakeServer(port)
    \/ \E port \in CmdPorts : OnCmdSleepServer(port)
    \/ \E p \in Ports : StopFinish(p)
    \/ \E p \in Ports : ApiStart(p)
    \/ \E p \in Ports, ok \in BOOLEAN : StartFinish(p, ok)

SpecCmd == Init /\ [][NextCmd]_vars

\* ------------------------------------------------ C24

\* C24: a shutdown_server, wake_server or sleep_server command for a port
\* that has no instance returns an error and changes the state of no
\* instance.
C24_UnknownPortIsAnError ==
    [][(cmd' # cmd /\ cmd'.pc = "done" /\ cmd'.port \notin servers)
          => /\ cmd'.err = "error"
             /\ <<gs, pm, alive, proxy, imu>>' = <<gs, pm, alive, proxy, imu>>]_vars

\* ------------------------------------------------ C25

\* C25: when Instance.Stop returns, whether the process stopped gracefully
\* or Stop fell back to a kill, the instance holds no proxy and none of its
\* proxies is running.
C25_StopLeavesNoProxy ==
    [][\A p \in Ports :
          (imu[p].op = "stop" /\ imu'[p] = Free) => proxy'[p] = NoProxy]_vars

\* ------------------------------------------------ phase transitions

\* The phases the status frames of a match go through.
MatchPhases == {"idle", "match_started", "game_ended"}

\* The match id a game server reports in a status frame: that of its match
\* (match 1) while it has one, zero when idle.
FrameMatchID(phase) == IF phase = "idle" THEN 0 ELSE 1

\* tcp_listener.go handleConnection, lines 160, 180-193: a status frame of a
\* game server that plays a match arrives and is published.
RecvStatusMatch(c, ph) ==
    /\ conns[c].pc = "reading"
    /\ ~conns[c].closed
    /\ Len(tasks) < MaxInFlight
    /\ tasks' = Emit(tasks, [Task("status", conns[c].port, 0, ph)
                                EXCEPT !.match = FrameMatchID(ph)])
    /\ conns' = [conns EXCEPT ![c].pc = "loop"]
    /\ UNCHANGED <<wvars, xvars, hvars, pool, proxy, servers, gs, registry, stopped,
                   notified, ctxDone, pvars, imu, fvars>>

\* One game server that plays matches: it announces itself and reports its
\* phase in status frames.
NextPhase ==
    \/ \E c \in {1} : Accept(c)
    \/ \E c \in {1}, p \in {1} : HandshakeRegister(c, p)
    \/ \E c \in {1} : EmitAnnounce(c)
    \/ \E c \in {1} : LoopCheck(c)
    \/ \E c \in {1}, ph \in MatchPhases : RecvStatusMatch(c, ph)
    \/ \E i \in 1..MaxInFlight : HandleAnnounce(i)
    \/ \E i \in 1..MaxInFlight : HandleStatus(i)

SpecPhase == Init /\ [][NextPhase]_vars

\* ------------------------------------------------ C26

\* The handler task i of a status frame takes its onPhaseTransition step.
PhaseStep(i) ==
    /\ i \in 1..Len(tasks)
    /\ tasks[i].type = "status"
    /\ tasks[i].pc = "phase"
    /\ Len(tasks') = Len(tasks)
    /\ tasks'[i].pc = "getstatus"

\* C26: when a status frame changes the stored phase, entering match_started
\* requests high priority and clears the lag history, and entering
\* game_ended or idle requests normal priority and clears the match info.
C26_PhaseChangeEffects ==
    [][\A i \in 1..MaxInFlight :
          PhaseStep(i) =>
             LET p == tasks[i].port
             IN  /\ tasks[i].phase = "match_started"
                      => priority'[p] = "high" /\ gs'[p].SkippedFrames = 0
                 /\ tasks[i].phase \in {"game_ended", "idle"}
                      => priority'[p] = "normal" /\ gs'[p].MatchID = 0]_vars

\* ------------------------------------------------ the total of lag events

\* long_frame frames one game server sends while its phase changes and its
\* instance is restarted.
MaxTotal == 2

\* tcp_listener.go handleConnection, lines 180-193: a long_frame frame.
RecvLongFrameTotal(c) ==
    /\ conns[c].pc = "reading"
    /\ gs[conns[c].port].TotalLagEvents
         + Cardinality({i \in 1..Len(tasks) : tasks[i].type = "long_frame"}) < MaxTotal
    /\ RecvFrame(c, "long_frame", 0, "idle")

\* One game server that reports long frames and the start of a match, one
\* frame handled at a time, while the health check restarts its instance when it
\* is stuck in starting.
NextTotal ==
    \/ \E c \in {1} : Accept(c)
    \/ \E c \in {1}, p \in {1} : HandshakeRegister(c, p)
    \/ \E c \in {1} : EmitAnnounce(c)
    \/ \E c \in {1} : LoopCheck(c)
    \/ \E c \in {1} : tasks = <<>> /\ RecvLongFrameTotal(c)
    \/ \E c \in {1} : tasks = <<>> /\ RecvStatusMatch(c, "match_started")
    \/ \E i \in 1..MaxInFlight : HandleAnnounce(i)
    \/ \E i \in 1..MaxInFlight : HandleLongFrame(i)
    \/ \E i \in 1..MaxInFlight : HandleStatus(i)
    \/ \E p \in {1} : ApiStart(p)
    \/ \E p \in {1} : StartFinish(p, TRUE)
    \/ Advance(ShortStep)
    \/ HealthTick
    \/ \E p \in {1} : RestartStop(p)
    \/ \E p \in {1} : StopFinish(p)
    \/ \E p \in {1} : RestartReset(p)

SpecTotal == Init /\ [][NextTotal]_vars

\* ------------------------------------------------ C27

\* The handler task i of a long_frame takes its AddLagEvent step.
LagStep(i) ==
    /\ i \in 1..Len(tasks)
    /\ tasks[i].type = "long_frame"
    /\ tasks[i].pc = "start"
    /\ tasks[i].port \in servers
    /\ Len(tasks') = Len(tasks)
    /\ tasks'[i].pc = "read"

\* C27: every long_frame handled for an instance adds exactly 1 to its total
\* of lag events, and no step (a phase change, a clear of the lag history, the
\* Reset of a restart) makes the total smaller.
C27_TotalLagEventsMonotonic ==
    [][/\ \A p \in Ports : gs'[p].TotalLagEvents >= gs[p].TotalLagEvents
       /\ \A i \in 1..MaxInFlight :
             LagStep(i) => gs'[tasks[i].port].TotalLagEvents
                             = gs[tasks[i].port].TotalLagEvents + 1]_vars

\* Long frames were counted, then the lag history was cleared, the instance
\* has entered match_started, and a restart has reset its state.
C27_Witness ==
    /\ gs[1].TotalLagEvents = MaxTotal
    /\ gs[1].SkippedFrames = 0
    /\ priority[1] = "high"
    /\ gs[1].Status = "queued"
    /\ restarts[1].resample > 0

\* ------------------------------------------------ Instance.Enable, Disable

\* instance.go Enable, lines 211-216: under i.mu.
Enable(p) ==
    /\ p \in servers
    /\ imu[p] = Free
    /\ enabled' = [enabled EXCEPT ![p] = TRUE]
    /\ UNCHANGED <<wvars, evars, cmd, priority, hvars, pool, proxy, servers, gs, lvars, bvars,
                   ctxDone, pvars, imu, fvars>>

\* instance.go Disable, lines 219-224: under i.mu.
Disable(p) ==
    /\ p \in servers
    /\ imu[p] = Free
    /\ enabled' = [enabled EXCEPT ![p] = FALSE]
    /\ UNCHANGED <<wvars, evars, cmd, priority, hvars, pool, proxy, servers, gs, lvars, bvars,
                   ctxDone, pvars, imu, fvars>>

\* Instance 1 is enabled and disabled while the callers of its Start are at
\* work: an operator, its StartAll worker, and the Restart goroutines of the
\* health check (the goroutine of AddServers calls the same Start).
NextEnable ==
    \/ \E p \in {1} : Enable(p)
    \/ \E p \in {1} : Disable(p)
    \/ \E p \in {1} : ApiStart(p)
    \/ \E p \in {1}, ok \in BOOLEAN : StartFinish(p, ok)
    \/ StartAllBegin
    \/ StartAllLoop
    \/ \E p \in {1} : WorkerStart(p)
    \/ Advance(ShortStep)
    \/ HealthTick
    \/ \E p \in {1} : RestartStop(p)
    \/ \E p \in {1} : StopFinish(p)
    \/ \E p \in {1} : RestartReset(p)
    \/ \E p \in {1}, r \in {0} : RestartResample(p, r)
    \/ \E p \in {1} : RestartStart(p)

SpecEnable == Init /\ [][NextEnable]_vars

\* ------------------------------------------------ C28

\* C28: no step gives a process or a proxy to an instance that is disabled:
\* a Start on it, whoever calls it, returns without spawning a process and
\* without starting a proxy.
C28_DisabledNeverStarts ==
    [][\A p \in Ports :
          (p \in servers /\ ~enabled[p] /\ p \in servers')
             => /\ pm'[p].cmd = pm[p].cmd
                /\ alive'[p] \subseteq alive[p]
                /\ imu'[p].op = "start" => imu[p].op = "start"
                /\ proxy'[p].state = "up" => proxy[p].state = "up"]_vars

\* The health check restarted instance 1 while it was disabled: it was
\* stopped and reset, and the Start of the Restart was refused.
C28_Witness ==
    /\ ~enabled[1]
    /\ pm[1].cmd = 1
    /\ ~pm[1].running
    /\ gs[1].Status = "queued"
    /\ RestartCount(1) = 0


\* ------------------------------------------- the game server wire format
\* protocol/parser.go: Parse turns the payload of one packet into an event.
\* A payload is a sequence of bytes; the first one is the command.

\* The command bytes a game server sends (chat_parser.go lines 159-167).
PktServerAnnounce == 64
PktServerClosed == 65
PktServerStatus == 66
PktLongFrame == 67
PktLobbyCreated == 68
PktLobbyClosed == 69
PktPlayerConnection == 71
PktCowMasterResponse == 73
PktReplayStatus == 74

\* A command byte of the other direction (chat_parser.go line 170), which
\* Parse has no case for.
PktManagerCommand == 80

\* The cases of the switch in Parse (parser.go lines 76-102).
KnownCommands ==
    {PktServerAnnounce, PktServerClosed, PktServerStatus, PktLongFrame,
     PktLobbyCreated, PktLobbyClosed, PktPlayerConnection, PktCowMasterResponse,
     PktReplayStatus}

\* The fields each parse function reads after the command byte, in order, by
\* the type of the variable binary.Read fills ("str": readString).  For a
\* status the list of (name, ping) pairs follows these.
Schema(c) ==
    CASE c = PktServerAnnounce -> <<"u16">>
      [] c = PktServerClosed -> <<"u16">>
      [] c = PktServerStatus -> <<"u16", "u32", "f32", "u8", "u8", "u32">>
      [] c = PktLongFrame -> <<"u16", "u32">>
      [] c = PktLobbyCreated -> <<"u16", "u32", "str", "str">>
      [] c = PktLobbyClosed -> <<"u16">>
      [] c = PktPlayerConnection -> <<"u16", "str", "u32", "u8">>
      [] c = PktCowMasterResponse -> <<"u16", "u8", "i32">>
      [] c = PktReplayStatus -> <<"u16", "u32", "u8">>
      [] OTHER -> <<"u16">>

\* The event type each parse function builds.
EventTypeOf(c) ==
    CASE c = PktServerAnnounce -> "server_announce"
      [] c = PktServerClosed -> "server_closed"
      [] c = PktServerStatus -> "server_status"
      [] c = PktLongFrame -> "long_frame"
      [] c = PktLobbyCreated -> "lobby_created"
      [] c = PktLobbyClosed -> "lobby_closed"
      [] c = PktPlayerConnection -> "player_connection"
      [] c = PktCowMasterResponse -> "cowmaster_response"
      [] c = PktReplayStatus -> "replay_status"
      [] OTHER -> "none"

\* The position of player_count among the fields of a status.
PlayerCountField == 4

\* The size in bytes of a fixed-width field.
FieldSize(t) ==
    CASE t = "u8" -> 1
      [] t = "u16" -> 2
      [] OTHER -> 4

\* ---- what the game server writes

\* A little-endian integer of n bytes.
RECURSIVE EncLE(_, _)
EncLE(v, n) == IF n = 0 THEN <<>> ELSE <<v % 256>> \o EncLE(v \div 256, n - 1)

\* A string: its length in one byte, then its bytes.
EncString(str) == <<Len(str)>> \o str

RECURSIVE EncFields(_, _, _)
EncFields(schema, fields, i) ==
    IF i > Len(schema) THEN <<>>
    ELSE (IF schema[i] = "str" THEN EncString(fields[i])
          ELSE EncLE(fields[i], FieldSize(schema[i])))
         \o EncFields(schema, fields, i + 1)

RECURSIVE EncPairs(_, _)
EncPairs(pairs, i) ==
    IF i > Len(pairs) THEN <<>>
    ELSE EncString(pairs[i].name) \o EncLE(pairs[i].ping, 2) \o EncPairs(pairs, i + 1)

\* The whole payload of a frame: command, fields, and the pairs of a status.
Encode(f) == <<f.cmd>> \o EncFields(Schema(f.cmd), f.fields, 1) \o EncPairs(f.pairs, 1)

\* ---- what Parse reads

\* binary.Read into an integer: the bytes, least significant first.
RECURSIVE DecLE(_)
DecLE(bytes) == IF bytes = <<>> THEN 0 ELSE bytes[1] + 256 * DecLE(Tail(bytes))

\* strings.TrimRight(s, "\x00") (parser.go line 413).
RECURSIVE TrimRightNul(_)
TrimRightNul(str) ==
    IF str # <<>> /\ str[Len(str)] = 0
    THEN TrimRightNul(SubSeq(str, 1, Len(str) - 1))
    ELSE str

\* readString at position pos of data (parser.go lines 397-414): a length
\* byte, then that many bytes.  A read that runs out of bytes is an error and
\* leaves the reader at the end of the data.
readString(data, pos) ==
    IF pos > Len(data)
    THEN [ok |-> FALSE, val |-> <<>>, pos |-> Len(data) + 1]
    ELSE IF data[pos] = 0
         THEN [ok |-> TRUE, val |-> <<>>, pos |-> pos + 1]
         ELSE IF pos + data[pos] <= Len(data)
              THEN [ok |-> TRUE,
                    val |-> TrimRightNul(SubSeq(data, pos + 1, pos + data[pos])),
                    pos |-> pos + data[pos] + 1]
              ELSE [ok |-> FALSE, val |-> <<>>, pos |-> Len(data) + 1]

\* The fields of a parse function, read one after the other from position
\* pos.  A binary.Read that fails ends the function with an error; so does a
\* readString that fails, unless the function discards its error (lenient:
\* "mapName, _ := readString(r)", parser.go lines 250-251) and goes on with
\* the empty string.
RECURSIVE ParseFields(_, _, _, _, _, _)
ParseFields(data, pos, schema, i, acc, lenient) ==
    IF i > Len(schema) THEN [err |-> FALSE, fields |-> acc, pos |-> pos]
    ELSE IF schema[i] = "str"
         THEN LET r == readString(data, pos)
              IN  IF ~r.ok /\ ~lenient
                  THEN [err |-> TRUE, fields |-> acc, pos |-> r.pos]
                  ELSE ParseFields(data, r.pos, schema, i + 1,
                                   Append(acc, r.val), lenient)
         ELSE LET n == FieldSize(schema[i])
              IN  IF pos + n - 1 > Len(data)
                  THEN [err |-> TRUE, fields |-> acc, pos |-> Len(data) + 1]
                  ELSE ParseFields(data, pos + n, schema, i + 1,
                                   Append(acc, DecLE(SubSeq(data, pos, pos + n - 1))),
                                   lenient)

\* playerPings[name] = ping (parser.go line 186).
PutPing(m, name, ping) ==
    [n \in DOMAIN m \cup {name} |-> IF n = name THEN ping ELSE m[n]]

\* The loop over the players of a status (parser.go lines 176-187): for i
\* below playerCount a name and a ping are read and stored; the first read
\* that fails ends the loop, and the pairs stored so far are kept.
RECURSIVE ParsePings(_, _, _, _, _)
ParsePings(data, pos, playerCount, i, acc) ==
    IF i >= playerCount THEN acc
    ELSE LET r == readString(data, pos)
         IN  IF ~r.ok THEN acc
             ELSE IF r.pos + 1 > Len(data) THEN acc
                  ELSE ParsePings(data, r.pos + 2, playerCount, i + 1,
                                  PutPing(acc, r.val,
                                          DecLE(SubSeq(data, r.pos, r.pos + 1))))

ParseError == [state |-> "error", type |-> "none", fields |-> <<>>, pings |-> <<>>]

\* Parse (parser.go lines 68-103): no byte is an error, a command without a
\* case is an error, and otherwise the parse function of the command decides.
Parse(data) ==
    IF Len(data) < 1 THEN ParseError
    ELSE IF data[1] \notin KnownCommands THEN ParseError
    ELSE LET c == data[1]
             r == ParseFields(data, 2, Schema(c), 1, <<>>, c = PktLobbyCreated)
         IN  IF r.err THEN ParseError
             ELSE [state |-> "event", type |-> EventTypeOf(c), fields |-> r.fields,
                   pings |-> IF c = PktServerStatus
                             THEN ParsePings(data, r.pos, r.fields[PlayerCountField],
                                             0, <<>>)
                             ELSE <<>>]

\* ---- the frames followed

\* The players a status may list.
MaxPlayers == 2

\* The values a game server puts into a field of each type: a port above 255
\* has two bytes that differ, a name may carry a trailing NUL.
FieldValues(t) ==
    CASE t = "u16" -> {1, 258}
      [] t = "u8" -> {0, 1}
      [] t = "str" -> {<<>>, <<97>>, <<97, 0>>}
      [] OTHER -> {7}

RECURSIVE FieldTuples(_, _)
FieldTuples(schema, i) ==
    IF i > Len(schema) THEN {<<>>}
    ELSE {<<v>> \o rest : v \in FieldValues(schema[i]),
                          rest \in FieldTuples(schema, i + 1)}

\* The i-th player of a status and the ping reported for them.
PlayerPair(i) == [name |-> <<96 + i>>, ping |-> 39 + i]

\* A frame as the game server means it: fixed is the length of the command byte
\* and the fields, full the length with the pairs.
Frame(c, fields, pairs) ==
    [cmd |-> c, fields |-> fields, pairs |-> pairs,
     fixed |-> 1 + Len(EncFields(Schema(c), fields, 1)),
     full |-> 1 + Len(EncFields(Schema(c), fields, 1)) + Len(EncPairs(pairs, 1))]

\* The status frames: player_count is the number of pairs that follow.
StatusFrames ==
    {Frame(PktServerStatus, [fs EXCEPT ![PlayerCountField] = n],
           [i \in 1..n |-> PlayerPair(i)]) :
        fs \in FieldTuples(Schema(PktServerStatus), 1), n \in 0..MaxPlayers}

Frames ==
    StatusFrames
    \cup UNION {{Frame(c, fs, <<>>) : fs \in FieldTuples(Schema(c), 1)} :
                    c \in (KnownCommands \ {PktServerStatus}) \cup {PktManagerCommand}}

\* Connection.ReadPacket returns a payload (tcp_listener.go line 160): the
\* first n bytes of what the game server encoded, n being the length the packet
\* announced (never 0: ReadPacket refuses it).
ReadPacketReturns(f, n) ==
    /\ decoded.state # "pending"
    /\ n \in 1..f.full
    /\ sent' = f
    /\ wire' = SubSeq(Encode(f), 1, n)
    /\ decoded' = [NoEvent EXCEPT !.state = "pending"]
    /\ UNCHANGED <<stream, packet, win, lk, fleet, xvars, hvars, pool, proxy, servers, gs, lvars, bvars, ctxDone,
                   pvars, imu, fvars>>

\* l.parser.Parse(data) (tcp_listener.go line 181).
ParsePacket ==
    /\ decoded.state = "pending"
    /\ decoded' = Parse(wire)
    /\ UNCHANGED <<sent, wire, stream, packet, win, lk, fleet, xvars, hvars, pool, proxy, servers, gs, lvars, bvars,
                   ctxDone, pvars, imu, fvars>>

NextParse ==
    \/ \E f \in Frames : \E n \in 1..(1 + 6 + 4 + 4 + 2 + 3 * (MaxPlayers + 1)) :
          ReadPacketReturns(f, n)
    \/ ParsePacket

SpecParse == Init /\ [][NextParse]_vars

\* The payload was parsed into an event or refused.
Parsed == decoded.state \in {"event", "error"}

\* C29: every status frame decoded carries a player count equal to the number
\* of (name, ping) pairs parsed from its list.
C29_PlayerCountIsPairsParsed ==
    (decoded.state = "event" /\ decoded.type = "server_status")
        => decoded.fields[PlayerCountField] = Cardinality(DOMAIN decoded.pings)

\* C30: a payload with an unknown command byte, or one that ends before every
\* field of its command has been read (the list of pings aside), is refused
\* with an error.
C30_ShortOrUnknownIsAnError ==
    (Parsed /\ (sent.cmd \notin KnownCommands \/ Len(wire) < sent.fixed))
        => decoded.state = "error"


\* ------------------------------------------------- protocol.ReadPacket
\* parser.go lines 31-53: a packet on the socket is a length of two bytes,
\* least significant first, and then that many bytes of payload.  The socket
\* is followed as the bytes of the prefix that arrived and the number of
\* payload bytes that arrived after it; what the payload bytes are plays no
\* part in ReadPacket.

\* MaxPacketSize (chat_parser.go line 186).
MaxPacketSize == 65535

\* The payload bytes that may be missing from, or follow, a frame.
MaxSlack == 1

\* The lengths a sender declares: the ends of the range of a uint16 and the
\* values around a change of the high byte.
DeclaredLengths == {0, 1, 2, 255, 256, 257, 65534, 65535}

\* binary.Read of the uint16 prefix (parser.go lines 33-36): it needs both bytes.
PrefixRead(st) == Len(st.prefix) = 2

\* A refusal that also turns the largest length away.
TooLargeFrom(length) == length >= MaxPacketSize

\* "length > MaxPacketSize" (parser.go line 42).
TooLarge(length) == length > MaxPacketSize

\* ReadPacket on the bytes st of a socket.
ReadPacket(st) ==
    IF ~PrefixRead(st) THEN [state |-> "error", len |-> 0]
    ELSE LET length == DecLE(st.prefix) % 65536
         IN  IF length = 0 THEN [state |-> "error", len |-> 0]
             ELSE IF TooLarge(length) THEN [state |-> "error", len |-> 0]
             \* io.ReadFull(r, payload) (parser.go lines 47-50)
             ELSE IF st.avail < length THEN [state |-> "error", len |-> 0]
             ELSE [state |-> "ok", len |-> length]

\* A game server writes a frame that declares n bytes: k bytes of the prefix
\* and a bytes of payload arrive before the socket ends.
WriteFrame(n, k, a) ==
    /\ packet.state # "pending"
    /\ stream' = [declared |-> n, prefix |-> SubSeq(EncLE(n, 2), 1, k), avail |-> a]
    /\ packet' = [NoPacket EXCEPT !.state = "pending"]
    /\ UNCHANGED <<sent, wire, decoded, win, lk, fleet, xvars, hvars, pool, proxy, servers, gs, lvars,
                   bvars, ctxDone, pvars, imu, fvars>>

\* protocol.ReadPacket(c.conn) returns (part_017 line 216).
ReadPacketCall ==
    /\ packet.state = "pending"
    /\ packet' = ReadPacket(stream)
    /\ UNCHANGED <<sent, wire, decoded, stream, win, lk, fleet, xvars, hvars, pool, proxy, servers, gs,
                   lvars, bvars, ctxDone, pvars, imu, fvars>>

NextReadPacket ==
    \/ \E n \in DeclaredLengths : \E k \in 0..2 : \E d \in 0..MaxSlack :
          \/ WriteFrame(n, k, n + d)
          \/ n >= d /\ WriteFrame(n, k, n - d)
    \/ ReadPacketCall

SpecReadPacket == Init /\ [][NextReadPacket]_vars

\* The whole frame arrived: both bytes of the prefix and the declared payload.
WholeFrame == Len(stream.prefix) = 2 /\ stream.avail >= stream.declared

\* C31: a frame that declares length 0 is rejected; a frame that declares a
\* length from 1 to 65535, 65535 included, is accepted and returned as exactly
\* that many payload bytes.
C31_LengthBounds ==
    (packet.state \in {"ok", "error"} /\ WholeFrame)
        => /\ stream.declared = 0 => packet.state = "error"
           /\ stream.declared \in 1..65535 =>
                 packet.state = "ok" /\ packet.len = stream.declared

C31_Witness ==
    packet.state = "ok" /\ stream.declared = 65535 /\ packet.len = 65535


\* ------------------------------------------- Register, then Unregister

\* handleConnection c registers itself in this step (tcp_listener.go line 145).
RegisterStep(c) == conns[c].pc = "handshake" /\ conns'[c].pc = "registered"

\* C32: Register(p, c) followed immediately by Unregister(p) leaves the
\* registry with no entry for p and c closed, and the entries of the other
\* ports as they were.
C32_RegisterThenUnregister ==
    [][\A c \in ConnIds :
          RegisterStep(c) =>
              LET p == conns'[c].port
                  r == Unregister(registry', conns', p)
              IN  /\ r[1][p] = NoConn
                  /\ r[2][c].closed
                  /\ \A q \in Ports \ {p} : r[1][q] = registry[q]]_vars

\* A connection registered itself, and its deferred Unregister has run.
C32_Witness ==
    \E c \in ConnIds :
        /\ conns[c].pc = "done"
        /\ conns[c].first = "announce"
        /\ conns[c].closed
        /\ registry[conns[c].port] = NoConn


\* ------------------------------------------- the exit of an evicted connection

\* Connection c is in its read loop and the registry holds a newer connection
\* for its port: Register closed c when the newer one announced the port.
Evicted(c) ==
    /\ InLoop(c)
    /\ conns[c].closed
    /\ registry[conns[c].port] \notin {NoConn, c}

\* C33: when the read loop of an evicted connection exits, the newer
\* connection stays registered for the port and is not closed by that exit.
C33_EvictedExitSparesNewer ==
    [][\A c \in ConnIds :
          (Evicted(c) /\ conns'[c].pc = "done")
          => /\ registry'[conns[c].port] = registry[conns[c].port]
             /\ conns'[registry[conns[c].port]].closed
                    = conns[registry[conns[c].port]].closed]_vars


\* ------------------------------------------- who clears the running flag

\* C34: the running flag a Start set is cleared only by Stop or Kill, or after
\* the exit of the process that Start spawned: the monitor of an earlier
\* process never clears it while the later process lives.
C34_StaleMonitorLeavesRunning ==
    [][\A p \in Ports :
          (pm[p].running /\ ~pm'[p].running)
          => (imu[p].op = "stop" \/ pm[p].cmd \notin alive[p])]_vars


\* ------------------------------------------- StartAll after the cancellation

\* C35: once the root context has been cancelled, StartAll launches no worker
\* for an instance it had not launched before, and so no instance that
\* StopAll has stopped gets a process from it.
C35_NoLaunchAfterCancel ==
    [][ctxDone => sa'.pending \subseteq sa.pending]_vars


\* ------------------------------------------- the process handle (Windows)
\* The Windows build of the ProcessManager (part_007, and the windows branches
\* of process.go): startPlatform creates the process with CreateProcessW and
\* keeps the process handle the system returned.  win[p].open is the set of
\* those handles the system still holds open for the manager, win[p].live the
\* handles whose process has not terminated.

\* closeProcessHandle (part_007 lines 89-93): CloseHandle on a handle that is
\* not 0.  It has no caller in the repository, so no action below uses it.
closeProcessHandle(open, h) == IF h # 0 THEN open \ {h} ELSE open

\* startPlatform (part_007 lines 42-79) under ProcessManager.Start (process.go
\* lines 80-95): an error when running; else the process is created, its
\* handle stored, running set, and a monitorDirect goroutine started.  A
\* CreateProcessW that fails changes nothing.
WinStart(p, ok) ==
    /\ ~win[p].running
    /\ win[p].started < MaxStarts
    /\ win' = [win EXCEPT ![p] =
                 IF ok
                 THEN [@ EXCEPT !.running = TRUE,
                                !.processHandle = win[p].started + 1,
                                !.started = @ + 1,
                                !.live = @ \cup {win[p].started + 1},
                                !.open = @ \cup {win[p].started + 1},
                                !.monitors = @ \cup {win[p].started + 1}]
                 ELSE @]
    /\ UNCHANGED <<sent, wire, decoded, stream, packet, lk, fleet, xvars, hvars, pool, proxy,
                   servers, gs, lvars, bvars, ctxDone, pvars, imu, fvars>>

\* The windows branch of Stop (process.go lines 147-160) and of Kill (lines
\* 202-210): nothing when not running; else TerminateProcess on the stored
\* handle, or taskkill, and running cleared.  The stored handle stays as it is.
WinTerminate(m) ==
    IF ~m.running THEN m
    ELSE [m EXCEPT !.running = FALSE, !.live = @ \ {m.processHandle}]

WinStop(p) ==
    /\ win[p].started > 0
    /\ win' = [win EXCEPT ![p] = WinTerminate(@)]
    /\ UNCHANGED <<sent, wire, decoded, stream, packet, lk, fleet, xvars, hvars, pool, proxy,
                   servers, gs, lvars, bvars, ctxDone, pvars, imu, fvars>>

WinKill(p) ==
    /\ win[p].started > 0
    /\ win' = [win EXCEPT ![p] = WinTerminate(@)]
    /\ UNCHANGED <<sent, wire, decoded, stream, packet, lk, fleet, xvars, hvars, pool, proxy,
                   servers, gs, lvars, bvars, ctxDone, pvars, imu, fvars>>

\* The game server process exits on its own.
WinProcessExit(p) ==
    /\ win[p].running
    /\ win[p].processHandle \in win[p].live
    /\ win' = [win EXCEPT ![p].live = @ \ {win[p].processHandle}]
    /\ UNCHANGED <<sent, wire, decoded, stream, packet, lk, fleet, xvars, hvars, pool, proxy,
                   servers, gs, lvars, bvars, ctxDone, pvars, imu, fvars>>

\* One tick of a monitorDirect goroutine (process.go lines 103-132): it ends
\* when running is false; else it asks whether the current process runs, and
\* when it does not, clears running and ends.
MonitorDirectTick(p, m) ==
    /\ m \in win[p].monitors
    /\ win' = [win EXCEPT ![p] =
                 IF ~@.running THEN [@ EXCEPT !.monitors = @ \ {m}]
                 ELSE IF @.processHandle \in @.live THEN @
                 ELSE [@ EXCEPT !.running = FALSE, !.monitors = @ \ {m}]]
    /\ win' # win
    /\ UNCHANGED <<sent, wire, decoded, stream, packet, lk, fleet, xvars, hvars, pool, proxy,
                   servers, gs, lvars, bvars, ctxDone, pvars, imu, fvars>>

NextWin ==
    \/ \E p \in Ports, ok \in BOOLEAN : WinStart(p, ok)
    \/ \E p \in Ports : WinStop(p)
    \/ \E p \in Ports : WinKill(p)
    \/ \E p \in Ports : WinProcessExit(p)
    \/ \E p \in Ports, m \in 1..MaxStarts : MonitorDirectTick(p, m)

SpecWin == Init /\ [][NextWin]_vars

\* The process created with handle h has terminated and the manager has seen
\* it: by its own Stop or Kill, or by the monitor that observed the exit.
TerminationSeen(p, h) ==
    /\ h \in 1..win[p].started
    /\ ~(win[p].running /\ win[p].processHandle = h)

\* C36: the handle the manager holds for a process is released when the
\* process terminates through Stop, Kill or an observed exit: once the
\* termination has been seen, the handle is no longer open.
C36_HandleReleased ==
    \A p \in Ports : \A h \in 1..MaxStarts :
        TerminationSeen(p, h) => h \notin win[p].open


\* ------------------------------------------- the order of the locks
\* Instance.mu, GameState.mu and ProcessManager.mu of one instance.  A read
\* lock is followed as a lock: a sync.RWMutex with a writer waiting admits no
\* new reader.

\* The place of a mutex in the order Instance, GameState, Process.
Rank(l) == CASE l = "Instance" -> 1 [] l = "GameState" -> 2 [] l = "Process" -> 3

Acq(l) == [op |-> "lock", lock |-> l]
Rel(l) == [op |-> "unlock", lock |-> l]

\* A method that takes one mutex and releases it before it returns: every
\* method of GameState (state.go lines 77-230) and every method of the
\* ProcessManager (process.go lines 80-374).
Call(l) == <<Acq(l), Rel(l)>>

\* Instance.Stop (instance.go lines 168-187): i.mu for the whole call; under
\* it SetStatus, process.Stop, and process.Kill when Stop failed.
StopProgram(killed) ==
    <<Acq("Instance")>> \o Call("GameState") \o Call("Process")
        \o (IF killed THEN Call("Process") ELSE <<>>)
        \o <<Rel("Instance")>>

\* A status handler that asks the instance while it holds the process mutex.
StatusProgramUnderProcess(transition) ==
    <<Acq("Process"), Acq("Instance"), Rel("Instance"), Rel("Process")>>

\* Instance.HandleStatusUpdate (instance.go lines 259-283) with
\* onPhaseTransition (lines 393-419): GetPhase, UpdateTelemetry, the effects
\* of the transition, GetStatus, SetStatus; i.mu is not taken.
StatusProgram(transition) ==
    Call("GameState") \o Call("GameState")
        \o (CASE transition = "match_started" -> Call("Process") \o Call("GameState")
              [] transition = "game_ended" -> Call("Process")
              [] transition = "idle" -> Call("GameState") \o Call("GameState")
              [] OTHER -> <<>>)
        \o Call("GameState") \o Call("GameState")

\* ProcessManager.monitor after cmd.Wait() (process.go lines 366-374).
MonitorProgram == Call("Process")

\* Instance.GetInfo (instance.go lines 639-655): i.mu for the whole call;
\* under it Snapshot, IsRunning, PID and Uptime.
InfoProgram ==
    <<Acq("Instance")>> \o Call("GameState") \o Call("Process") \o Call("Process")
        \o Call("Process") \o <<Rel("Instance")>>

\* The calls goroutine t may make.
Programs(t) ==
    CASE t = "stop" -> {StopProgram(k) : k \in BOOLEAN}
      [] t = "status" -> {StatusProgram(tr) : tr \in {"none", "match_started",
                                                     "game_ended", "idle"}}
      [] t = "monitor" -> {MonitorProgram}
      [] t = "info" -> {InfoProgram}

\* Goroutine t has begun and has calls left.
Active(t) == lk.prog[t] # <<>> /\ lk.pc[t] <= Len(lk.prog[t])

\* The next call of an active goroutine.
NextCall(t) == lk.prog[t][lk.pc[t]]

\* Goroutine t begins: an operator stops the instance, a status event is
\* dispatched, the process exits, a REST request asks for the instance.
Begin(t, prog) ==
    /\ lk.prog[t] = <<>>
    /\ lk' = [lk EXCEPT !.prog[t] = prog]
    /\ UNCHANGED <<sent, wire, decoded, stream, packet, win, fleet, xvars, hvars, pool, proxy,
                   servers, gs, lvars, bvars, ctxDone, pvars, imu, fvars>>

\* mu.Lock() returns: the mutex was free.
LockStep(t) ==
    /\ Active(t)
    /\ NextCall(t).op = "lock"
    /\ lk.holder[NextCall(t).lock] = "none"
    /\ lk' = [lk EXCEPT !.holder[NextCall(t).lock] = t,
                        !.held[t] = Append(@, NextCall(t).lock),
                        !.pc[t] = @ + 1]
    /\ UNCHANGED <<sent, wire, decoded, stream, packet, win, fleet, xvars, hvars, pool, proxy,
                   servers, gs, lvars, bvars, ctxDone, pvars, imu, fvars>>

\* mu.Unlock(): the mutex taken last is released first.
UnlockStep(t) ==
    /\ Active(t)
    /\ NextCall(t).op = "unlock"
    /\ lk' = [lk EXCEPT !.holder[NextCall(t).lock] = "none",
                        !.held[t] = SubSeq(@, 1, Len(@) - 1),
                        !.pc[t] = @ + 1]
    /\ UNCHANGED <<sent, wire, decoded, stream, packet, win, fleet, xvars, hvars, pool, proxy,
                   servers, gs, lvars, bvars, ctxDone, pvars, imu, fvars>>

NextLocks ==
    \/ \E t \in Threads : \E prog \in Programs(t) : Begin(t, prog)
    \/ \E t \in Threads : LockStep(t)
    \/ \E t \in Threads : UnlockStep(t)

SpecLocks == Init /\ [][NextLocks]_vars

\* Goroutine t can take its next step.
CanStep(t) ==
    Active(t) /\ (NextCall(t).op = "lock" => lk.holder[NextCall(t).lock] = "none")

\* C37: the mutexes are only taken in the order Instance, GameState, Process:
\* a goroutine that holds one asks only for one later in the order (never for
\* Instance while it holds Process); and a Stop that runs together with the
\* handlers on the same instance never gets stuck: while a goroutine has
\* calls left, one of them can go on.
C37_LockOrderNoDeadlock ==
    /\ \A t \in Threads :
          (Active(t) /\ NextCall(t).op = "lock")
              => \A i \in 1..Len(lk.held[t]) :
                    Rank(lk.held[t][i]) < Rank(NextCall(t).lock)
    /\ (\E t \in Threads : Active(t)) => (\E t \in Threads : CanStep(t))

\* Stop holds Instance.mu and ProcessManager.mu while the status handler holds
\* GameState.mu.
C37_Witness ==
    /\ lk.holder["Instance"] = "stop"
    /\ lk.holder["Process"] = "stop"
    /\ lk.holder["GameState"] = "status"


\* ------------------------------------------- telemetry for a stopped instance

\* state.go GameState.SetPhase (lines 94-101).
SetPhase(g, phase) == [g EXCEPT !.Phase = phase]

\* A lobby_created frame arrives and is published (tcp_listener.go lines
\* 160-193); the lobby is the one of match 1.
RecvLobbyCreated(c) == RecvFrame(c, "lobby_created", 0, "in_lobby")

\* process_linux.go onLobbyCreated (lines 1257-1267) and instance.go
\* HandleLobbyCreated (lines 286-296), one step per lock acquisition:
\* SetMatchInfo, SetPhase(in_lobby), SetStatus(occupied), whatever the status
\* of the instance is.
HandleLobbyCreated(i) ==
    /\ i \in 1..Len(tasks)
    /\ tasks[i].type = "lobby_created"
    /\ LET t == tasks[i]
           p == t.port
       IN  CASE t.pc = "start" ->
                  IF p \in servers
                    THEN /\ gs' = [gs EXCEPT ![p] = SetMatchInfo(@, 1)]
                         /\ tasks' = [tasks EXCEPT ![i].pc = "phase"]
                    ELSE Done(i) /\ UNCHANGED gs
             [] t.pc = "phase" ->
                  /\ gs' = [gs EXCEPT ![p] = SetPhase(@, "in_lobby")]
                  /\ tasks' = [tasks EXCEPT ![i].pc = "status"]
             [] t.pc = "status" ->
                  /\ gs' = [gs EXCEPT ![p] = SetStatus(@, "occupied")]
                  /\ Done(i)
    /\ UNCHANGED <<wvars, xvars, hvars, pool, proxy, servers, lvars, stopped, notified,
                   ctxDone, pvars, imu, fvars>>

\* One game server and its instance: the server announces itself and reports
\* its lobby and its status while an operator starts and stops the instance.
NextLate ==
    \/ \E c \in {1} : Accept(c)
    \/ \E c \in {1}, p \in {1} : HandshakeRegister(c, p)
    \/ \E c \in {1} : EmitAnnounce(c)
    \/ \E c \in {1} : LoopCheck(c)
    \/ \E c \in {1} : RecvLobbyCreated(c)
    \/ \E c \in {1} : RecvStatusIdle(c)
    \/ \E i \in 1..MaxInFlight : HandleAnnounce(i)
    \/ \E i \in 1..MaxInFlight : HandleLobbyCreated(i)
    \/ \E i \in 1..MaxInFlight : HandleStatus(i)
    \/ \E p \in {1} : ApiStart(p)
    \/ \E p \in {1} : StartFinish(p, TRUE)
    \/ \E p \in {1} : ApiStop(p)
    \/ \E p \in {1} : StopFinish(p)

SpecLate == Init /\ [][NextLate]_vars

\* The handler of an announce for port p ends in this step.
AnnounceHandled(p) ==
    \E i \in 1..Len(tasks) :
        /\ tasks[i].type = "announce"
        /\ tasks[i].port = p
        /\ tasks' = RemoveAt(tasks, i)

\* C38: an instance an operator has stopped (Stop has returned, status
\* stopped, no process running) keeps the status stopped whatever telemetry is still handled for
\* it; only a Start or a new announce moves it.
C38_StoppedStaysStopped ==
    [][\A p \in Ports :
          (gs[p].Status = "stopped" /\ ~pm[p].running /\ imu[p] = Free
             /\ gs'[p].Status # "stopped")
          => (imu'[p].op = "start" \/ AnnounceHandled(p))]_vars


\* ------------------------------------------- one transition, one set of effects

\* C39: the effects of a phase transition run exactly once per change of the
\* stored phase, also when several status frames of the instance are handled
\* by handler tasks that run together: the handler that stores a frame's
\* telemetry goes on to run them if and only if that update changed the
\* stored phase.
C39_EffectsOncePerChange ==
    [][\A i \in 1..Len(tasks) :
          TelemetryStep(i)
          => ((tasks'[i].pc = "phase")
                <=> (gs'[tasks[i].port].Phase # gs[tasks[i].port].Phase))]_vars


\* ------------------------------------------------ the identities of the fleet

\* The ports Manager.servers has an instance for.
FleetMembers(f) == {p \in FleetPorts : f[p] # 0}

\* process_linux.go AddServers, lines 1394-1438, as far as the identities of
\* the instances go: under m.mu the new instances take the ports after the
\* highest current one, and the instance of iteration i takes the ordinal
\* len(m.servers) + i + 1, the map having grown by i by then.
FleetAddServers(count) ==
    LET maxPort == MaxPort(FleetMembers(fleet))
        c == Cardinality(FleetMembers(fleet))
        new == maxPort..(maxPort + count - 1)
    IN  /\ maxPort + count - 1 <= NumPorts + MaxAdded
        /\ fleet' = [p \in FleetPorts |-> IF p \in new
                        THEN AddedId(c, p - maxPort) ELSE fleet[p]]
        /\ UNCHANGED <<sent, wire, decoded, stream, packet, win, lk, xvars, hvars,
                       pool, proxy, servers, gs, lvars, bvars, ctxDone, pvars, imu, fvars>>

\* process_linux.go RemoveServers, lines 1441-1462, as far as the identities
\* go: under m.mu every listed port that has an instance loses it; a listed
\* port without one is skipped.
FleetRemoveServers(S) ==
    /\ fleet' = [p \in FleetPorts |-> IF p \in S THEN 0 ELSE fleet[p]]
    /\ UNCHANGED <<sent, wire, decoded, stream, packet, win, lk, xvars, hvars,
                   pool, proxy, servers, gs, lvars, bvars, ctxDone, pvars, imu, fvars>>

\* An initialized fleet under any sequence of AddServers and RemoveServers.
NextFleet ==
    \/ \E n \in 1..(NumPorts + MaxAdded) : FleetAddServers(n)
    \/ \E S \in SUBSET FleetPorts : FleetRemoveServers(S)

SpecFleet == Init /\ [][NextFleet]_vars

\* C40: after any sequence of AddServers and RemoveServers calls on an
\* initialized fleet, no two instances of the fleet have the same ordinal;
\* no two have the same port, the fleet being keyed by port.
C40_FleetIdentitiesUnique ==
    \A p \in FleetMembers(fleet), q \in FleetMembers(fleet) :
        p # q => fleet[p] # fleet[q]
====
